---- MODULE Spec2Model ----
(***************************************************************************)
(* The Choco interpreter (src/main.cpp) as a state machine.                *)
(*                                                                         *)
(* The interpreter is a recursive-descent evaluator over a flat token      *)
(* vector.  Its C++ call stack is the variable ctl, a stack of activation  *)
(* records: one record per active C++ function, holding the function's     *)
(* locals and the point (pc) at which it resumes when its callee returns.   *)
(* rv is the value the callee that returned last handed to its caller.      *)
(* Strings (identifiers, string values, printed lines) are sequences of     *)
(* one-character strings; Numbers are exact fractions.                      *)
(***************************************************************************)
EXTENDS Integers, Sequences, FiniteSets

VARIABLES
    source,       \* the text main read and the Lexer has still to tokenize
    tokens,       \* Interpreter::tokens, the token vector (1-based here)
    oob,          \* what a read past the end of the token vector yields
    current,      \* Interpreter::current, the 0-based token cursor
    scopes,       \* Interpreter::scopes, the scope stack
    globalVars,   \* Interpreter::globalVars
    functions,    \* Interpreter::functions, the function table
    hasReturned,  \* Interpreter::hasReturned, the pending-return flag
    returnValue,  \* Interpreter::returnValue, the return-value slot
    out,          \* the lines written to standard output
    ctl,          \* the C++ call stack
    rv,           \* the C++ return value of the callee that returned last
    status,       \* "lexing", "running", "done" (execute() returned) or
                  \* "crashed"
    ev            \* history: what the step that led here did

vars == <<source, tokens, oob, current, scopes, globalVars, functions, hasReturned,
          returnValue, out, ctl, rv, status, ev>>

(***************************************************************************)
(* Bounds of the model.                                                    *)
(***************************************************************************)
\* the longest of the source texts built from LexAlphabet
MaxSourceLen == 3
\* how far past the token vector the cursor may run before the read faults
MaxOverrun == 2
\* the deepest C++ call stack explored
MaxCtl == 60
\* the most lines of output explored
MaxOut == 6

(***************************************************************************)
(* Values.                                                                 *)
(***************************************************************************)
\* A double is the exact fraction n/d in lowest terms, d > 0, with big
\* empty; a whole number above the largest int is its decimal digits in big
\* (with n = 0, d = 1).  The programs explored stay where double arithmetic
\* is exact or rounds out of sight, and do no arithmetic on the numbers
\* above the largest int.
Abs(n) == IF n < 0 THEN 0 - n ELSE n

RECURSIVE Gcd(_, _)
Gcd(a, b) == IF b = 0 THEN a ELSE Gcd(b, a % b)

Frac(n, d) ==
    LET g == Gcd(Abs(n), d)
    IN  [n |-> IF n < 0 THEN 0 - (Abs(n) \div g) ELSE n \div g, d |-> d \div g,
         big |-> <<>>]

\* static_cast<double>(i)
Whole(i) == [n |-> i, d |-> 1, big |-> <<>>]

Big(digits) == [n |-> 0, d |-> 1, big |-> digits]

IsBig(x) == x.big # <<>>

Nil == [type |-> "NIL", num |-> Whole(0), str |-> <<>>, boolean |-> FALSE,
        array |-> <<>>]
NumV(x) == [type |-> "NUMBER", num |-> x, str |-> <<>>, boolean |-> FALSE,
            array |-> <<>>]
StrV(s) == [type |-> "STRING", num |-> Whole(0), str |-> s, boolean |-> FALSE,
            array |-> <<>>]
BoolV(b) == [type |-> "BOOL", num |-> Whole(0), str |-> <<>>, boolean |-> b,
             array |-> <<>>]
ArrV(a) == [type |-> "ARRAY", num |-> Whole(0), str |-> <<>>, boolean |-> FALSE,
            array |-> a]

Digit(d) == CASE d = 0 -> "0" [] d = 1 -> "1" [] d = 2 -> "2" [] d = 3 -> "3"
              [] d = 4 -> "4" [] d = 5 -> "5" [] d = 6 -> "6" [] d = 7 -> "7"
              [] d = 8 -> "8" [] d = 9 -> "9"

DigitVal(c) == CASE c = "0" -> 0 [] c = "1" -> 1 [] c = "2" -> 2 [] c = "3" -> 3
                 [] c = "4" -> 4 [] c = "5" -> 5 [] c = "6" -> 6 [] c = "7" -> 7
                 [] c = "8" -> 8 [] c = "9" -> 9

\* the order of two whole numbers given by their digits, without leading
\* zeros
RECURSIVE DigitsLess(_, _)
DigitsLess(a, b) ==
    IF Len(a) # Len(b) THEN Len(a) < Len(b)
    ELSE IF Len(a) = 0 THEN FALSE
    ELSE IF a[1] # b[1] THEN DigitVal(a[1]) < DigitVal(b[1])
    ELSE DigitsLess(Tail(a), Tail(b))

\* the arithmetic and the comparisons of double
Plus(x, y) ==
    CASE ~IsBig(x) /\ ~IsBig(y) -> Frac(x.n * y.d + y.n * x.d, x.d * y.d)
Minus(x, y) ==
    CASE ~IsBig(x) /\ ~IsBig(y) -> Frac(x.n * y.d - y.n * x.d, x.d * y.d)
Times(x, y) ==
    CASE ~IsBig(x) /\ ~IsBig(y) -> Frac(x.n * y.n, x.d * y.d)
Less(x, y) ==
    IF IsBig(x) /\ IsBig(y) THEN DigitsLess(x.big, y.big)
    ELSE IF IsBig(y) THEN TRUE
    ELSE IF IsBig(x) THEN FALSE
    ELSE x.n * y.d < y.n * x.d
IsZero(x) == ~IsBig(x) /\ x.n = 0

\* left.num /= right.num, right.num nonzero
Quot(x, y) ==
    CASE ~IsBig(x) /\ ~IsBig(y) ->
           IF y.n < 0 THEN Frac(0 - (x.n * y.d), x.d * (0 - y.n))
           ELSE Frac(x.n * y.d, x.d * y.n)

\* the integer nearest to x between 0 and x
Trunc(x) == IF x.n < 0 THEN 0 - (Abs(x.n) \div x.d) ELSE x.n \div x.d

\* fmod: x minus y times the truncated quotient, nonzero y
Fmod(x, y) == Minus(x, Times(y, Whole(Trunc(Quot(x, y)))))

\* the largest and the smallest int
IntMax == 2147483647
IntMin == 0 - IntMax - 1

\* static_cast<int>(x): the truncated value when an int can hold it;
\* otherwise the conversion is undefined, and yields what the hardware's
\* conversion instruction does (the smallest int, or the nearest one)
IntCasts(x) == IF IsBig(x) THEN {IntMin, IntMax} ELSE {Trunc(x)}

\* std::to_string of a non-negative int
RECURSIVE NatToString(_)
NatToString(n) == IF n < 10 THEN <<Digit(n)>>
                  ELSE NatToString(n \div 10) \o <<Digit(n % 10)>>

\* std::to_string(static_cast<int>(num))
IntToString(n) == IF n < 0 THEN <<"-">> \o NatToString(0 - n) ELSE NatToString(n)

\* the last k decimal digits of n
RECURSIVE PadDigits(_, _)
PadDigits(n, k) == IF k = 0 THEN <<>>
                   ELSE PadDigits(n \div 10, k - 1) \o <<Digit(n % 10)>>

\* std::to_string(double): "%f", six digits after the point, rounded
FixedToString(x) ==
    IF IsBig(x) THEN x.big \o <<".", "0", "0", "0", "0", "0", "0">>
    ELSE LET whole == Abs(x.n) \div x.d
             millionths == (2 * (Abs(x.n) % x.d) * 1000000 + x.d) \div (2 * x.d)
             carry == millionths \div 1000000
         IN  (IF x.n < 0 THEN <<"-">> ELSE <<>>)
             \o NatToString(whole + carry) \o <<".">>
             \o PadDigits(millionths % 1000000, 6)

\* s.erase(s.find_last_not_of('0') + 1)
RECURSIVE StripZeros(_)
StripZeros(s) == IF Len(s) > 0 /\ s[Len(s)] = "0"
                 THEN StripZeros(SubSeq(s, 1, Len(s) - 1))
                 ELSE s

\* the NUMBER case of Value::toString; num == static_cast<int>(num) is false
\* whatever the conversion yields when no int holds num
NumberToString(x) ==
    IF ~IsBig(x) /\ x.d = 1 THEN IntToString(x.n)
    ELSE LET s == StripZeros(FixedToString(x))
         IN  IF s[Len(s)] = "." THEN SubSeq(s, 1, Len(s) - 1) ELSE s

\* the value of a string of digits
RECURSIVE DigitsVal(_)
DigitsVal(s) == IF Len(s) = 0 THEN 0
                ELSE 10 * DigitsVal(SubSeq(s, 1, Len(s) - 1)) + DigitVal(s[Len(s)])

\* the power of ten with k zeros
RECURSIVE Pow10(_)
Pow10(k) == IF k = 0 THEN 1 ELSE 10 * Pow10(k - 1)

\* where the decimal point of a NUMBER token's text is, 0 if it has none
RECURSIVE DotAt(_, _)
DotAt(s, i) == IF i > Len(s) THEN 0
               ELSE IF s[i] = "." THEN i
               ELSE DotAt(s, i + 1)

\* digits without their leading zeros
RECURSIVE StripLeading(_)
StripLeading(s) == IF Len(s) > 1 /\ s[1] = "0" THEN StripLeading(Tail(s)) ELSE s

\* std::stod of a NUMBER token's text: digits, with at most one point
\* between two of them
Stod(s) ==
    LET p == DotAt(s, 1)
        whole == StripLeading(s)
    IN  IF p # 0
        THEN Frac(DigitsVal(SubSeq(s, 1, p - 1) \o SubSeq(s, p + 1, Len(s))),
                  Pow10(Len(s) - p))
        ELSE IF DigitsLess(NatToString(IntMax), whole) THEN Big(whole)
        ELSE Whole(DigitsVal(s))

\* Value::toString
RECURSIVE ToString(_)
RECURSIVE JoinElems(_, _)
JoinElems(arr, i) ==
    IF i > Len(arr) THEN <<>>
    ELSE ToString(arr[i])
         \o (IF i < Len(arr) THEN <<",", " ">> ELSE <<>>)
         \o JoinElems(arr, i + 1)
ToString(v) ==
    CASE v.type = "NUMBER" -> NumberToString(v.num)
      [] v.type = "STRING" -> v.str
      [] v.type = "BOOL" -> IF v.boolean THEN <<"t", "r", "u", "e">>
                            ELSE <<"f", "a", "l", "s", "e">>
      [] v.type = "ARRAY" -> <<"[">> \o JoinElems(v.array, 1) \o <<"]">>
      [] v.type = "NIL" -> <<"n", "i", "l">>

(***************************************************************************)
(* Tokens.                                                                 *)
(***************************************************************************)
\* the lexeme the lexer stores in a token of each fixed type
Lexeme(ty) ==
    CASE ty = "LET" -> <<"l", "e", "t">>
      [] ty = "FN" -> <<"f", "n">>
      [] ty = "IF" -> <<"i", "f">>
      [] ty = "ELSE" -> <<"e", "l", "s", "e">>
      [] ty = "WHILE" -> <<"w", "h", "i", "l", "e">>
      [] ty = "FOR" -> <<"f", "o", "r">>
      [] ty = "IN" -> <<"i", "n">>
      [] ty = "RETURN" -> <<"r", "e", "t", "u", "r", "n">>
      [] ty = "PUTS" -> <<"p", "u", "t", "s">>
      [] ty = "TRUE" -> <<"t", "r", "u", "e">>
      [] ty = "FALSE" -> <<"f", "a", "l", "s", "e">>
      [] ty = "PLUS" -> <<"+">>
      [] ty = "MINUS" -> <<"-">>
      [] ty = "STAR" -> <<"*">>
      [] ty = "SLASH" -> <<"/">>
      [] ty = "PERCENT" -> <<"%">>
      [] ty = "EQUAL" -> <<"=">>
      [] ty = "EQUAL_EQUAL" -> <<"=", "=">>
      [] ty = "BANG_EQUAL" -> <<"!", "=">>
      [] ty = "LESS" -> <<"<">>
      [] ty = "GREATER" -> <<">">>
      [] ty = "LESS_EQUAL" -> <<"<", "=">>
      [] ty = "GREATER_EQUAL" -> <<">", "=">>
      [] ty = "AND" -> <<"&", "&">>
      [] ty = "OR" -> <<"|", "|">>
      [] ty = "BANG" -> <<"!">>
      [] ty = "LPAREN" -> <<"(">>
      [] ty = "RPAREN" -> <<")">>
      [] ty = "LBRACE" -> <<"{">>
      [] ty = "RBRACE" -> <<"}">>
      [] ty = "LBRACKET" -> <<"[">>
      [] ty = "RBRACKET" -> <<"]">>
      [] ty = "COMMA" -> <<",">>
      [] ty = "SEMICOLON" -> <<";">>
      [] ty = "ARROW" -> <<"-", ">">>
      [] ty = "DOT" -> <<".">>
      [] ty = "DOTDOT" -> <<".", ".">>
      [] ty = "COLON" -> <<":">>
      [] ty = "EOF" -> <<>>

\* struct Token, without the line number (no code reads it)
T(ty) == [type |-> ty, value |-> Lexeme(ty)]
Id(s) == [type |-> "IDENTIFIER", value |-> s]
Num(s) == [type |-> "NUMBER", value |-> s]
Str(s) == [type |-> "STRING", value |-> s]

(***************************************************************************)
(* The lexer.  A source text is a sequence of characters; pos counts from  *)
(* 0 as in the code.  number, identifier, string and nextToken yield the   *)
(* token and the position after it.                                        *)
(***************************************************************************)
\* source[pos]
Ch(src, pos) == src[pos + 1]

\* std::isdigit, std::isalpha, std::isspace (without the vertical tab)
Digits == {"0", "1", "2", "3", "4", "5", "6", "7", "8", "9"}
Letters == {"a", "b", "c", "d", "e", "f", "g", "h", "i", "j", "k", "l", "m",
            "n", "o", "p", "q", "r", "s", "t", "u", "v", "w", "x", "y", "z",
            "A", "B", "C", "D", "E", "F", "G", "H", "I", "J", "K", "L", "M",
            "N", "O", "P", "Q", "R", "S", "T", "U", "V", "W", "X", "Y", "Z"}
Spaces == {" ", "\t", "\n", "\r", "\f"}

RECURSIVE skipWhitespace(_, _)
skipWhitespace(src, pos) ==
    IF pos < Len(src) /\ Ch(src, pos) \in Spaces
    THEN skipWhitespace(src, pos + 1)
    ELSE pos

RECURSIVE skipComment(_, _)
skipComment(src, pos) ==
    IF pos < Len(src) /\ Ch(src, pos) # "\n"
    THEN skipComment(src, pos + 1)
    ELSE pos

\* a number scan that takes the first dot whatever follows it
RECURSIVE numberGreedy(_, _, _, _)
numberGreedy(src, pos, num, hasDot) ==
    IF pos < Len(src) /\ (Ch(src, pos) \in Digits \/ (Ch(src, pos) = "." /\ ~hasDot))
    THEN numberGreedy(src, pos + 1, Append(num, Ch(src, pos)),
                      hasDot \/ Ch(src, pos) = ".")
    ELSE [tok |-> Num(num), pos |-> pos]

\* the loop of number(), with the text num read so far
RECURSIVE number(_, _, _, _)
number(src, pos, num, hasDot) ==
    LET stop == [tok |-> Num(num), pos |-> pos]
    IN  IF pos >= Len(src) THEN stop
        ELSE IF Ch(src, pos) \in Digits
        THEN number(src, pos + 1, Append(num, Ch(src, pos)), hasDot)
        ELSE IF Ch(src, pos) = "." /\ ~hasDot
        THEN IF pos + 1 < Len(src) /\ Ch(src, pos + 1) = "." THEN stop
             ELSE IF pos + 1 < Len(src) /\ Ch(src, pos + 1) \in Digits
             THEN number(src, pos + 1, Append(num, Ch(src, pos)), TRUE)
             ELSE stop
        ELSE stop

\* the keywords
Keywords == {"LET", "FN", "IF", "ELSE", "WHILE", "FOR", "IN", "RETURN", "PUTS",
             "TRUE", "FALSE"}

\* the loop of identifier(), with the text id read so far, and its
\* classification
RECURSIVE identifier(_, _, _)
identifier(src, pos, id) ==
    IF pos < Len(src) /\ Ch(src, pos) \in Letters \cup Digits \cup {"_"}
    THEN identifier(src, pos + 1, Append(id, Ch(src, pos)))
    ELSE [tok |-> IF \E ty \in Keywords : Lexeme(ty) = id
                  THEN T(CHOOSE ty \in Keywords : Lexeme(ty) = id)
                  ELSE Id(id),
          pos |-> pos]

\* the loop of string(), entered after the opening quote, with the text str
\* read so far; at the end of the text it stops as at a closing quote
RECURSIVE string(_, _, _)
string(src, pos, str) ==
    IF pos < Len(src) /\ Ch(src, pos) # "\""
    THEN IF Ch(src, pos) = "\\" /\ pos + 1 < Len(src)
         THEN LET c == Ch(src, pos + 1)
                  esc == CASE c = "n" -> "\n"
                           [] c = "t" -> "\t"
                           [] OTHER -> c
              IN  string(src, pos + 2, Append(str, esc))
         ELSE IF /\ Ch(src, pos) = "#"
                 /\ pos + 1 < Len(src)
                 /\ Ch(src, pos + 1) = "{"
         THEN string(src, pos + 2, str \o <<"#", "{">>)
         ELSE string(src, pos + 1, Append(str, Ch(src, pos)))
    ELSE [tok |-> Str(str), pos |-> pos + 1]

\* a token of one character, or of two when the second is next
OneOrTwo(src, pos, next, two, one) ==
    IF pos + 1 < Len(src) /\ Ch(src, pos + 1) = next
    THEN [tok |-> T(two), pos |-> pos + 2]
    ELSE [tok |-> T(one), pos |-> pos + 1]

nextToken(src, pos) ==
    LET c == Ch(src, pos)
        single(ty) == [tok |-> T(ty), pos |-> pos + 1]
    IN  IF c \in Digits THEN number(src, pos, <<>>, FALSE)
        ELSE IF c \in Letters \cup {"_"} THEN identifier(src, pos, <<>>)
        ELSE IF c = "\"" THEN string(src, pos + 1, <<>>)
        ELSE CASE c = "+" -> single("PLUS")
               [] c = "*" -> single("STAR")
               [] c = "/" -> single("SLASH")
               [] c = "%" -> single("PERCENT")
               [] c = "(" -> single("LPAREN")
               [] c = ")" -> single("RPAREN")
               [] c = "{" -> single("LBRACE")
               [] c = "}" -> single("RBRACE")
               [] c = "[" -> single("LBRACKET")
               [] c = "]" -> single("RBRACKET")
               [] c = "," -> single("COMMA")
               [] c = ";" -> single("SEMICOLON")
               [] c = ":" -> single("COLON")
               [] c = "." -> OneOrTwo(src, pos, ".", "DOTDOT", "DOT")
               [] c = "-" -> OneOrTwo(src, pos, ">", "ARROW", "MINUS")
               [] c = "=" -> OneOrTwo(src, pos, "=", "EQUAL_EQUAL", "EQUAL")
               [] c = "!" -> OneOrTwo(src, pos, "=", "BANG_EQUAL", "BANG")
               [] c = "<" -> OneOrTwo(src, pos, "=", "LESS_EQUAL", "LESS")
               [] c = ">" -> OneOrTwo(src, pos, "=", "GREATER_EQUAL", "GREATER")
               [] c = "&" -> OneOrTwo(src, pos, "&", "AND", "EOF")
               [] c = "|" -> OneOrTwo(src, pos, "|", "OR", "EOF")
               [] OTHER -> single("EOF")

\* the loop of tokenize() from pos with the tokens toks, and its result
RECURSIVE tokenize(_, _, _)
tokenize(src, pos, toks) ==
    LET p == skipWhitespace(src, pos)
    IN  IF p >= Len(src) THEN Append(toks, T("EOF"))
        ELSE IF Ch(src, p) = "/" /\ p + 1 < Len(src) /\ Ch(src, p + 1) = "/"
        THEN tokenize(src, skipComment(src, p), toks)
        ELSE LET t == nextToken(src, p)
             IN  tokenize(src, t.pos, Append(toks, t.tok))

(***************************************************************************)
(* Maps (std::map) are functions; the scope stack is a sequence of maps.   *)
(***************************************************************************)
EmptyMap == [x \in {} |-> Nil]
Has(m, k) == k \in DOMAIN m
Put(m, k, v) == [x \in (DOMAIN m) \cup {k} |-> IF x = k THEN v ELSE m[x]]

\* the innermost frame that binds name, 0 if none (the loops of
\* setVariable and getVariable, from scopes.size() - 1 down to 0)
RECURSIVE FindFrame(_, _, _)
FindFrame(sc, name, i) ==
    IF i = 0 THEN 0
    ELSE IF Has(sc[i], name) THEN i
    ELSE FindFrame(sc, name, i - 1)

\* a setVariable that always binds in the current frame
SetVariableLocal(sc, name, val) ==
    [sc EXCEPT ![Len(sc)] = Put(sc[Len(sc)], name, val)]

\* a setVariable that creates an unbound name in the global frame
SetVariableGlobal(sc, name, val) ==
    LET i == FindFrame(sc, name, Len(sc))
        j == IF i = 0 THEN 1 ELSE i
    IN  [sc EXCEPT ![j] = Put(sc[j], name, val)]

SetVariable(sc, name, val) ==
    LET i == FindFrame(sc, name, Len(sc))
        j == IF i = 0 THEN Len(sc) ELSE i
    IN  [sc EXCEPT ![j] = Put(sc[j], name, val)]

GetVariable(sc, gv, name) ==
    LET i == FindFrame(sc, name, Len(sc))
    IN  IF i # 0 THEN sc[i][name]
        ELSE IF Has(gv, name) THEN gv[name]
        ELSE Nil

(***************************************************************************)
(* Reading the token vector.                                               *)
(***************************************************************************)
\* tokens.size()
NTok == Len(tokens)

\* the cursor value at which a read past the vector faults
Limit == NTok + MaxOverrun

\* tokens[i]; past the end of the vector the read is undefined behaviour:
\* it yields whatever lies there (oob), or faults (the action Crash)
Tok(i) == IF i < NTok THEN tokens[i + 1] ELSE oob

\* peek().type == ty at cursor c
Is(c, ty) == Tok(c).type = ty

\* the cursor after match(ty) at cursor c
Match(c, ty) == IF Is(c, ty) THEN c + 1 ELSE c

\* a scan that stops at the first closing brace, whatever the nesting
BlockEndFlat(i, braceCount) ==
    IF \E j \in i..(NTok - 1) : Is(j, "RBRACE")
    THEN CHOOSE j \in i..(NTok - 1) :
           Is(j, "RBRACE") /\ \A k \in i..(j - 1) : ~Is(k, "RBRACE")
    ELSE IF i >= NTok THEN i ELSE NTok

\* the closing brace of the block whose opening brace was just consumed:
\* the scan of ifStatement, whileStatement and forStatement, which stops at
\* tokens.size()
RECURSIVE BlockEnd(_, _)
BlockEnd(i, braceCount) ==
    IF i >= NTok THEN i
    ELSE LET bc == IF Is(i, "LBRACE") THEN braceCount + 1
                   ELSE IF Is(i, "RBRACE") THEN braceCount - 1
                   ELSE braceCount
         IN  IF bc > 0 THEN BlockEnd(i + 1, bc) ELSE i

\* the scan of functionDeclaration, which stops at an EOF token and reads
\* the vector without a bound check; returns the cursor after the scan
RECURSIVE FnScan(_, _)
FnScan(c, braceCount) ==
    IF braceCount > 0 /\ ~Is(c, "EOF") /\ c < Limit
    THEN FnScan(c + 1, IF Is(c, "LBRACE") THEN braceCount + 1
                       ELSE IF Is(c, "RBRACE") THEN braceCount - 1
                       ELSE braceCount)
    ELSE c

\* the parameter loop of functionDeclaration from cursor c:
\* the cursor after it and the parameter names
RECURSIVE ParamLoop(_, _)
ParamLoop(c, params) ==
    IF Is(c, "RPAREN") THEN [cur |-> c + 1, params |-> params]
    ELSE IF c >= Limit THEN [cur |-> c, params |-> params]
    ELSE LET ps == Append(params, Tok(c).value)
         IN  IF Is(c + 1, "COMMA") THEN ParamLoop(c + 2, ps)
             ELSE [cur |-> Match(c + 1, "RPAREN"), params |-> ps]

(***************************************************************************)
(* String interpolation (the loop of primary on a STRING token).           *)
(* Positions are 1-based here, 0 stands for std::string::npos.             *)
(***************************************************************************)
\* str.find("#{", pos)
RECURSIVE FindMarker(_, _)
FindMarker(str, pos) ==
    IF pos + 1 > Len(str) THEN 0
    ELSE IF str[pos] = "#" /\ str[pos + 1] = "{" THEN pos
    ELSE FindMarker(str, pos + 1)

\* str.find("}", pos)
RECURSIVE FindClose(_, _)
FindClose(str, pos) ==
    IF pos > Len(str) THEN 0
    ELSE IF str[pos] = "}" THEN pos
    ELSE FindClose(str, pos + 1)

\* the while loop of primary, entered with the search position pos
RECURSIVE Interpolate(_, _, _, _)
Interpolate(str, pos, sc, gv) ==
    LET p == FindMarker(str, pos)
    IN  IF p = 0 THEN str
        ELSE LET end == FindClose(str, p)
                 varName == SubSeq(str, p + 2, end - 1)
                 val == GetVariable(sc, gv, varName)
                 str2 == IF end # 0
                         THEN SubSeq(str, 1, p - 1) \o ToString(val)
                              \o SubSeq(str, end + 1, Len(str))
                         ELSE str
             IN  Interpolate(str2, p + 1, sc, gv)

(***************************************************************************)
(* The C++ call stack.                                                     *)
(*                                                                         *)
(* An activation record has the slots below; each function uses the ones   *)
(* it has locals for (named at its action).  The g-slots are history: they *)
(* record what an activation saw, for the properties, and no step of the   *)
(* interpreter reads them.                                                 *)
(***************************************************************************)
Frame0 == [fn |-> "", pc |-> "start",
           name |-> <<>>, left |-> Nil, right |-> Nil, op |-> "",
           args |-> <<>>, start |-> 0, end |-> 0, start2 |-> 0, end2 |-> 0,
           saved |-> 0, i |-> 0, n |-> 0, flag |-> FALSE,
           gScopes |-> <<>>, gOut |-> <<>>, gFuncs |-> EmptyMap,
           gFresh |-> {}, gReturned |-> FALSE, gRetVal |-> Nil,
           gClosed |-> FALSE, gPos |-> 0 - 1, gVal |-> Nil, gIters |-> <<>>,
           gRan |-> <<>>, gLoop |-> FALSE]

Frame(fn) == [Frame0 EXCEPT !.fn = fn]

Top == ctl[Len(ctl)]

\* the stack with its top record replaced by f
SetTop(f) == [ctl EXCEPT ![Len(ctl)] = f]

\* the stack after the top record, continuing as f, called g
Invoke(f, g) == Append(SetTop(f), g)

\* the stack after the top record returned
Return == SubSeq(ctl, 1, Len(ctl) - 1)

\* the activation of callFunction that is innermost in stack k and has
\* pushed its scope frame; 0 if no call is active
RECURSIVE InnerCall(_, _)
InnerCall(k, i) ==
    IF i = 0 THEN 0
    ELSE IF k[i].fn = "callFunction" /\ k[i].pc # "start" THEN i
    ELSE InnerCall(k, i - 1)

\* the number of active calls: activations of callFunction between the push
\* and the pop of their scope frame
ActiveCalls == Cardinality({i \in 1..Len(ctl) :
                              ctl[i].fn = "callFunction" /\ ctl[i].pc # "start"})

\* history: the innermost active call assigned name while no frame bound it
MarkFresh(k, sc, name) ==
    LET i == InnerCall(k, Len(k))
    IN  IF i # 0 /\ FindFrame(sc, name, Len(sc)) = 0
        THEN [k EXCEPT ![i].gFresh = @ \cup {name}]
        ELSE k

\* history: the innermost active call executed a return statement; so did
\* the body of every while statement that call is in (gReturned of their
\* records), and gLoop of the call tells that there is one
MarkReturned(k, val) ==
    LET i == InnerCall(k, Len(k))
        m == IF i # 0 /\ ~k[i].gReturned
             THEN [k EXCEPT ![i].gReturned = TRUE, ![i].gRetVal = val]
             ELSE k
        loops == {j \in (i + 1)..Len(k) : k[j].fn = "whileStatement"}
    IN  [j \in 1..Len(k) |->
           IF j \in loops THEN [m[j] EXCEPT !.gReturned = TRUE]
           ELSE IF j = i /\ loops # {} THEN [m[j] EXCEPT !.gLoop = TRUE]
           ELSE m[j]]

NoEv == [kind |-> "none"]

\* a step can be taken: the program runs, the stack has room, and the
\* cursor is where a read does not fault
Running == status = "running" /\ Len(ctl) > 0 /\ Len(ctl) < MaxCtl /\ current < Limit

At(fn) == Running /\ Top.fn = fn

\* a step that changes only the cursor, the stack and the returned value
Go(c, k, r, e) ==
    /\ current' = c
    /\ ctl' = k
    /\ rv' = r
    /\ ev' = e
    /\ UNCHANGED <<source, tokens, oob, scopes, globalVars, functions, hasReturned,
                   returnValue, out, status>>

\* isAtEnd() at cursor c
IsAtEnd(c) == Is(c, "EOF")

(***************************************************************************)
(* execute and the statements.                                             *)
(***************************************************************************)
execute ==
    /\ At("execute")
    /\ IF ~IsAtEnd(current)
       THEN Go(current, Invoke(Top, Frame("statement")), rv, NoEv)
       ELSE /\ status' = "done"
            /\ ctl' = <<>>
            /\ ev' = NoEv
            /\ UNCHANGED <<source, tokens, oob, current, scopes, globalVars, functions,
                           hasReturned, returnValue, out, rv>>

\* history of a dispatch: the statement at pos starts; afterReturn tells
\* whether the innermost active call had already executed a return
StmtEv(pos) ==
    LET i == InnerCall(ctl, Len(ctl))
    IN  [kind |-> "stmt", pos |-> pos,
         afterReturn |-> (i # 0 /\ ctl[i].gReturned)]

\* history of setVariable(name, val): the scope stack it found
WriteEv(name, val) ==
    [kind |-> "write", name |-> name, val |-> val, before |-> scopes]

\* statement(); slot name is the assigned identifier.  History: gPos = the
\* cursor the statement was dispatched at
statement ==
    /\ At("statement")
    /\ LET f == Top
           g == [f EXCEPT !.gPos = current]
           handler(h) == Go(current + 1, Invoke([g EXCEPT !.pc = "done"], Frame(h)),
                            rv, StmtEv(current))
       IN
       CASE f.pc = "start" ->
              IF hasReturned THEN Go(current, Return, rv, NoEv)
              ELSE IF Is(current, "LET") THEN handler("letStatement")
              ELSE IF Is(current, "FN") THEN handler("functionDeclaration")
              ELSE IF Is(current, "PUTS") THEN handler("putsStatement")
              ELSE IF Is(current, "IF") THEN handler("ifStatement")
              ELSE IF Is(current, "WHILE") THEN handler("whileStatement")
              ELSE IF Is(current, "FOR") THEN handler("forStatement")
              ELSE IF Is(current, "RETURN") THEN handler("returnStatement")
              ELSE IF /\ Is(current, "IDENTIFIER")
                      /\ current + 1 < NTok
                      /\ Is(current + 1, "EQUAL")
              THEN Go(current + 2,
                      Invoke([g EXCEPT !.pc = "assign", !.name = Tok(current).value],
                             Frame("expression")),
                      rv, StmtEv(current))
              ELSE Go(current,
                      Invoke([g EXCEPT !.pc = "expr"], Frame("expression")),
                      rv, StmtEv(current))
         [] f.pc = "assign" ->
              /\ scopes' = SetVariable(scopes, f.name, rv)
              /\ current' = Match(current, "SEMICOLON")
              /\ ctl' = MarkFresh(Return, scopes, f.name)
              /\ ev' = WriteEv(f.name, rv)
              /\ UNCHANGED <<source, tokens, oob, globalVars, functions, hasReturned,
                             returnValue, out, rv, status>>
         [] f.pc = "expr" ->
              Go(Match(current, "SEMICOLON"), Return, rv, NoEv)
         [] f.pc = "done" ->
              Go(current, Return, rv, NoEv)

\* letStatement(); slot name is the declared name
letStatement ==
    /\ At("letStatement")
    /\ LET f == Top IN
       CASE f.pc = "start" ->
              Go(Match(current + 1, "EQUAL"),
                 Invoke([f EXCEPT !.pc = "val", !.name = Tok(current).value],
                        Frame("expression")),
                 rv, NoEv)
         [] f.pc = "val" ->
              /\ scopes' = SetVariable(scopes, f.name, rv)
              /\ current' = Match(current, "SEMICOLON")
              /\ ctl' = MarkFresh(Return, scopes, f.name)
              /\ ev' = WriteEv(f.name, rv)
              /\ UNCHANGED <<source, tokens, oob, globalVars, functions, hasReturned,
                             returnValue, out, rv, status>>

\* a function table that keeps the first definition of a name
RegisterOnce(fns, name, def) ==
    IF Has(fns, name) THEN fns ELSE Put(fns, name, def)

\* functions[name.value] = {params, bodyStart, bodyEnd}
Register(fns, name, def) == Put(fns, name, def)

\* functionDeclaration(), which calls nothing and is one step
functionDeclaration ==
    /\ At("functionDeclaration")
    /\ LET name == Tok(current).value
           pl == ParamLoop(Match(current + 1, "LPAREN"), <<>>)
           bodyStart == Match(pl.cur, "LBRACE")
           after == FnScan(bodyStart, 1)
           bodyEnd == after - 1
       IN  IF pl.cur >= Limit \/ after >= Limit
           THEN \* the scan ran off the vector until the read faulted
                /\ status' = "crashed"
                /\ ev' = NoEv
                /\ UNCHANGED <<source, tokens, oob, current, scopes, globalVars, functions,
                               hasReturned, returnValue, out, ctl, rv>>
           ELSE /\ functions' = Register(functions, name,
                                         [params |-> pl.params,
                                          bodyStart |-> bodyStart,
                                          bodyEnd |-> bodyEnd])
                /\ current' = after
                /\ ctl' = Return
                /\ ev' = [kind |-> "fndecl", name |-> name,
                          bodyStart |-> bodyStart, bodyEnd |-> bodyEnd,
                          functions0 |-> functions]
                /\ UNCHANGED <<source, tokens, oob, scopes, globalVars, hasReturned,
                               returnValue, out, rv, status>>

returnStatement ==
    /\ At("returnStatement")
    /\ LET f == Top IN
       CASE f.pc = "start" ->
              Go(current, Invoke([f EXCEPT !.pc = "val"], Frame("expression")),
                 rv, NoEv)
         [] f.pc = "val" ->
              /\ returnValue' = rv
              /\ hasReturned' = TRUE
              /\ current' = Match(current, "SEMICOLON")
              /\ ctl' = MarkReturned(Return, rv)
              /\ ev' = [kind |-> "return", val |-> rv]
              /\ UNCHANGED <<source, tokens, oob, scopes, globalVars, functions, out, rv,
                             status>>

putsStatement ==
    /\ At("putsStatement")
    /\ LET f == Top IN
       CASE f.pc = "start" ->
              Go(current, Invoke([f EXCEPT !.pc = "val"], Frame("expression")),
                 rv, NoEv)
         [] f.pc = "val" ->
              /\ Len(out) < MaxOut
              /\ out' = Append(out, ToString(rv))
              /\ current' = Match(current, "SEMICOLON")
              /\ ctl' = Return
              /\ ev' = NoEv
              /\ UNCHANGED <<source, tokens, oob, scopes, globalVars, functions, hasReturned,
                             returnValue, rv, status>>

\* an ifStatement that tests its condition as whileStatement does
ShouldExecuteBoolOnly(condition) ==
    condition.type = "BOOL" /\ condition.boolean

\* the truthiness rule of ifStatement
ShouldExecute(condition) ==
    CASE condition.type = "BOOL" -> condition.boolean
      [] condition.type = "NUMBER" -> ~IsZero(condition.num)
      [] condition.type = "STRING" -> Len(condition.str) # 0
      [] OTHER -> FALSE

\* history of an if statement that ends: its condition, its blocks, and
\* where the statements it ran began
IfEv(f) ==
    [kind |-> "ifexit", condition |-> f.left, hasElse |-> f.flag,
     thenStart |-> f.start, thenEnd |-> f.end, elseStart |-> f.start2,
     elseEnd |-> f.end2, ran |-> f.gRan, returned |-> hasReturned]

\* ifStatement(); slots: left = condition, start/end = thenStart/thenEnd,
\* start2/end2 = elseStart/elseEnd, flag = hasElse.  History: gRan = where
\* the statements it ran began
ifStatement ==
    /\ At("ifStatement")
    /\ LET f == Top
           finish == IF f.flag THEN f.end2 + 1 ELSE f.end + 1
           run == Go(current,
                     Invoke([f EXCEPT !.gRan = Append(@, current)],
                            Frame("statement")),
                     rv, NoEv)
       IN
       CASE f.pc = "start" ->
              Go(current, Invoke([f EXCEPT !.pc = "cond"], Frame("expression")),
                 rv, NoEv)
         [] f.pc = "cond" ->
              IF ~Is(current, "LBRACE")
              THEN \* "Expected '{' after if condition"
                   Go(current, Return, rv, NoEv)
              ELSE LET thenStart == current + 1
                       thenEnd == BlockEnd(thenStart, 1)
                       afterThen == thenEnd + 1
                       hasElse == afterThen < NTok /\ Is(afterThen, "ELSE")
                       elseStart == Match(afterThen + 1, "LBRACE")
                       elseEnd == BlockEnd(elseStart, 1)
                       g == [f EXCEPT !.left = rv, !.start = thenStart,
                                      !.end = thenEnd, !.flag = hasElse,
                                      !.start2 = IF hasElse THEN elseStart ELSE 0,
                                      !.end2 = IF hasElse THEN elseEnd ELSE 0]
                   IN  IF ShouldExecute(rv)
                       THEN Go(thenStart, SetTop([g EXCEPT !.pc = "then"]), rv, NoEv)
                       ELSE IF hasElse
                       THEN Go(elseStart, SetTop([g EXCEPT !.pc = "else"]), rv, NoEv)
                       ELSE Go(thenEnd + 1, Return, rv, IfEv(g))
         [] f.pc = "then" ->
              IF current < f.end /\ ~IsAtEnd(current) /\ ~hasReturned
              THEN run
              ELSE Go(finish, Return, rv, IfEv(f))
         [] f.pc = "else" ->
              IF current < f.end2 /\ ~IsAtEnd(current) /\ ~hasReturned
              THEN run
              ELSE Go(finish, Return, rv, IfEv(f))

\* a loop test that coerces the condition as ifStatement does
WhileEntersTruthy(condition, returned) ==
    ShouldExecute(condition) /\ ~returned

\* the loop test of whileStatement
WhileEnters(condition, returned) ==
    condition.type = "BOOL" /\ condition.boolean /\ ~returned

\* whileStatement(); slots: left = condition, saved = conditionStart,
\* start/end = bodyStart/bodyEnd.  History: right = the first value of the
\* condition, flag = the body was entered, gScopes/gOut/gFuncs = the scope
\* stack, the output and the function table when the condition was first
\* evaluated
whileStatement ==
    /\ At("whileStatement")
    /\ LET f == Top IN
       CASE f.pc = "start" ->
              Go(current,
                 Invoke([f EXCEPT !.pc = "cond0", !.saved = current],
                        Frame("expression")),
                 rv, NoEv)
         [] f.pc = "cond0" ->
              LET bodyStart == Match(current, "LBRACE")
                  bodyEnd == BlockEnd(bodyStart, 1)
              IN  Go(bodyStart,
                     SetTop([f EXCEPT !.pc = "test", !.left = rv,
                                      !.start = bodyStart, !.end = bodyEnd,
                                      !.right = rv, !.gScopes = scopes,
                                      !.gOut = out, !.gFuncs = functions]),
                     rv, NoEv)
         [] f.pc = "test" ->
              IF WhileEnters(f.left, hasReturned)
              THEN Go(f.start, SetTop([f EXCEPT !.pc = "body", !.flag = TRUE]),
                      rv, NoEv)
              ELSE Go(f.end + 1, Return, rv,
                      [kind |-> "whileexit", first |-> f.right, entered |-> f.flag,
                       scopes0 |-> f.gScopes, out0 |-> f.gOut,
                       functions0 |-> f.gFuncs, bodyStart |-> f.start,
                       bodyEnd |-> f.end])
         [] f.pc = "body" ->
              IF current < f.end /\ ~IsAtEnd(current) /\ ~hasReturned
              THEN Go(current, Invoke(f, Frame("statement")), rv, NoEv)
              ELSE Go(f.saved,
                      Invoke([f EXCEPT !.pc = "cond"], Frame("expression")),
                      rv, NoEv)
         [] f.pc = "cond" ->
              Go(Match(current, "LBRACE"),
                 SetTop([f EXCEPT !.pc = "test", !.left = rv]), rv, NoEv)

\* history of a for statement that ends: its bounds, the values of i its
\* iterations began with, and whether a return is pending
ForEv(f, end) ==
    [kind |-> "forexit", name |-> f.name, from |-> f.left, to |-> end,
     iters |-> f.gIters, returned |-> hasReturned, bodyStart |-> f.start,
     bodyEnd |-> f.end]

\* forStatement(); slots: name = iterVar, left = start, right = end,
\* start/end = loopBodyStart/loopBodyEnd, i = i, n = iEnd, saved =
\* savedCurrent.  History: gIters = the values of i the iterations began with
forStatement ==
    /\ At("forStatement")
    /\ LET f == Top IN
       CASE f.pc = "start" ->
              IF ~Is(current + 1, "IN")
              THEN \* "Expected 'in' in for loop"
                   Go(current + 1, Return, rv, NoEv)
              ELSE Go(current + 2,
                      Invoke([f EXCEPT !.pc = "from", !.name = Tok(current).value],
                             Frame("expression")),
                      rv, NoEv)
         [] f.pc = "from" ->
              IF ~Is(current, "DOTDOT")
              THEN \* "Expected '..' in for loop"
                   Go(current, Return, rv, NoEv)
              ELSE Go(current + 1,
                      Invoke([f EXCEPT !.pc = "to", !.left = rv],
                             Frame("expression")),
                      rv, NoEv)
         [] f.pc = "to" ->
              IF ~Is(current, "LBRACE")
              THEN \* "Expected '{' after for range"
                   Go(current, Return, rv, NoEv)
              ELSE LET loopBodyStart == current + 1
                       loopBodyEnd == BlockEnd(loopBodyStart, 1)
                   IN  IF f.left.type = "NUMBER" /\ rv.type = "NUMBER"
                       THEN \E iStart \in IntCasts(f.left.num),
                               iEnd \in IntCasts(rv.num) :
                              Go(loopBodyStart,
                                 SetTop([f EXCEPT !.pc = "next", !.right = rv,
                                                  !.start = loopBodyStart,
                                                  !.end = loopBodyEnd,
                                                  !.i = iStart, !.n = iEnd]),
                                 rv, NoEv)
                       ELSE Go(loopBodyEnd + 1, Return, rv,
                               ForEv([f EXCEPT !.start = loopBodyStart,
                                               !.end = loopBodyEnd], rv))
         [] f.pc = "next" ->
              IF f.i < f.n /\ ~hasReturned
              THEN /\ scopes' = SetVariable(scopes, f.name, NumV(Whole(f.i)))
                   /\ current' = f.start
                   /\ ctl' = MarkFresh(SetTop([f EXCEPT !.pc = "body",
                                                       !.saved = current,
                                                       !.gIters = Append(@, f.i)]),
                                       scopes, f.name)
                   /\ ev' = WriteEv(f.name, NumV(Whole(f.i)))
                   /\ UNCHANGED <<source, tokens, oob, globalVars, functions, hasReturned,
                                  returnValue, out, rv, status>>
              ELSE Go(f.end + 1, Return, rv, ForEv(f, f.right))
         [] f.pc = "body" ->
              IF current < f.end /\ ~hasReturned /\ ~IsAtEnd(current)
              THEN Go(current, Invoke(f, Frame("statement")), rv, NoEv)
              ELSE Go(f.saved, SetTop([f EXCEPT !.pc = "next", !.i = f.i + 1]),
                      rv, NoEv)

(***************************************************************************)
(* Expressions.  A binary level keeps its left operand in slot left and    *)
(* the operator token's type in slot op.                                   *)
(***************************************************************************)
expression ==
    /\ At("expression")
    /\ LET f == Top IN
       CASE f.pc = "start" ->
              Go(current, Invoke([f EXCEPT !.pc = "done"], Frame("logicalOr")),
                 rv, NoEv)
         [] f.pc = "done" ->
              Go(current, Return, rv, NoEv)

\* a coercion that takes a String as ifStatement does
ToBoolTruthy(v) ==
    CASE v.type = "BOOL" -> v.boolean
      [] v.type = "NUMBER" -> ~IsZero(v.num)
      [] v.type = "STRING" -> v.str # <<>>
      [] OTHER -> FALSE

\* the coercion of logicalOr and logicalAnd
ToBool(v) ==
    CASE v.type = "BOOL" -> v.boolean
      [] v.type = "NUMBER" -> ~IsZero(v.num)
      [] OTHER -> FALSE

\* history of a binary operation of record f: its operator, operands and
\* result, and the output when the operator was consumed
BinEv(f, right, result) ==
    [kind |-> "binary", op |-> f.op, left |-> f.left, right |-> right,
     result |-> result, out0 |-> f.gOut]

\* the head of the loop of a binary level whose left operand is left:
\* on one of the operator tokens ops, consume it and evaluate the right
\* operand with the function operand; otherwise return left.  e is the
\* history of the operation that gave left, if one did
BinaryLoop(f, left, ops, operand, e) ==
    IF Tok(current).type \in ops
    THEN Go(current + 1,
            Invoke([f EXCEPT !.pc = "right", !.left = left,
                             !.op = Tok(current).type, !.gOut = out],
                   Frame(operand)),
            rv, e)
    ELSE Go(current, Return, left, e)

logicalOr ==
    /\ At("logicalOr")
    /\ LET f == Top IN
       CASE f.pc = "start" ->
              Go(current, Invoke([f EXCEPT !.pc = "left"], Frame("logicalAnd")),
                 rv, NoEv)
         [] f.pc = "left" ->
              BinaryLoop(f, rv, {"OR"}, "logicalAnd", NoEv)
         [] f.pc = "right" ->
              LET result == BoolV(ToBool(f.left) \/ ToBool(rv))
              IN  BinaryLoop(f, result, {"OR"}, "logicalAnd",
                             BinEv(f, rv, result))

logicalAnd ==
    /\ At("logicalAnd")
    /\ LET f == Top IN
       CASE f.pc = "start" ->
              Go(current, Invoke([f EXCEPT !.pc = "left"], Frame("comparison")),
                 rv, NoEv)
         [] f.pc = "left" ->
              BinaryLoop(f, rv, {"AND"}, "comparison", NoEv)
         [] f.pc = "right" ->
              LET result == BoolV(ToBool(f.left) /\ ToBool(rv))
              IN  BinaryLoop(f, result, {"AND"}, "comparison",
                             BinEv(f, rv, result))

\* a comparison for which values of different variants are unequal
CompareUnequalAcross(op, left, right) ==
    IF left.type # right.type
    THEN op = "BANG_EQUAL"
    ELSE IF left.type = "NUMBER"
    THEN CASE op = "EQUAL_EQUAL" -> left.num = right.num
           [] op = "BANG_EQUAL" -> left.num # right.num
           [] op = "LESS" -> Less(left.num, right.num)
           [] op = "GREATER" -> Less(right.num, left.num)
           [] op = "LESS_EQUAL" -> ~Less(right.num, left.num)
           [] op = "GREATER_EQUAL" -> ~Less(left.num, right.num)
    ELSE IF left.type = "BOOL"
    THEN CASE op = "EQUAL_EQUAL" -> left.boolean = right.boolean
           [] op = "BANG_EQUAL" -> left.boolean # right.boolean
           [] OTHER -> FALSE
    ELSE IF left.type = "STRING"
    THEN CASE op = "EQUAL_EQUAL" -> left.str = right.str
           [] op = "BANG_EQUAL" -> left.str # right.str
           [] OTHER -> FALSE
    ELSE FALSE

\* the result of comparison for operator op
Compare(op, left, right) ==
    IF left.type = "NUMBER" /\ right.type = "NUMBER"
    THEN CASE op = "EQUAL_EQUAL" -> left.num = right.num
           [] op = "BANG_EQUAL" -> left.num # right.num
           [] op = "LESS" -> Less(left.num, right.num)
           [] op = "GREATER" -> Less(right.num, left.num)
           [] op = "LESS_EQUAL" -> ~Less(right.num, left.num)
           [] op = "GREATER_EQUAL" -> ~Less(left.num, right.num)
    ELSE IF left.type = "BOOL" /\ right.type = "BOOL"
    THEN CASE op = "EQUAL_EQUAL" -> left.boolean = right.boolean
           [] op = "BANG_EQUAL" -> left.boolean # right.boolean
           [] OTHER -> FALSE
    ELSE IF left.type = "STRING" /\ right.type = "STRING"
    THEN CASE op = "EQUAL_EQUAL" -> left.str = right.str
           [] op = "BANG_EQUAL" -> left.str # right.str
           [] OTHER -> FALSE
    ELSE FALSE

comparison ==
    /\ At("comparison")
    /\ LET f == Top
           ops == {"EQUAL_EQUAL", "BANG_EQUAL", "LESS", "GREATER", "LESS_EQUAL",
                   "GREATER_EQUAL"}
       IN
       CASE f.pc = "start" ->
              Go(current, Invoke([f EXCEPT !.pc = "left"], Frame("term")), rv, NoEv)
         [] f.pc = "left" ->
              BinaryLoop(f, rv, ops, "term", NoEv)
         [] f.pc = "right" ->
              LET result == BoolV(Compare(f.op, f.left, rv))
              IN  BinaryLoop(f, result, ops, "term",
                             BinEv(f, rv, result))

\* a factor that divides without looking at the divisor
MultiplicativeUnguarded(op, left, right) ==
    IF left.type = "NUMBER" /\ right.type = "NUMBER"
    THEN IF op = "STAR" THEN [left EXCEPT !.num = Times(left.num, right.num)]
         ELSE IF IsZero(right.num) THEN Nil
         ELSE IF op = "SLASH"
         THEN [left EXCEPT !.num = Quot(left.num, right.num)]
         ELSE [left EXCEPT !.num = Fmod(left.num, right.num)]
    ELSE left

\* the body of the loop of term
Additive(op, left, right) ==
    IF left.type = "NUMBER" /\ right.type = "NUMBER"
    THEN IF op = "PLUS" THEN [left EXCEPT !.num = Plus(left.num, right.num)]
         ELSE [left EXCEPT !.num = Minus(left.num, right.num)]
    ELSE IF left.type = "STRING" /\ right.type = "STRING" /\ op = "PLUS"
    THEN [left EXCEPT !.str = left.str \o right.str]
    ELSE left

term ==
    /\ At("term")
    /\ LET f == Top IN
       CASE f.pc = "start" ->
              Go(current, Invoke([f EXCEPT !.pc = "left"], Frame("factor")), rv, NoEv)
         [] f.pc = "left" ->
              BinaryLoop(f, rv, {"PLUS", "MINUS"}, "factor", NoEv)
         [] f.pc = "right" ->
              LET result == Additive(f.op, f.left, rv)
              IN  BinaryLoop(f, result, {"PLUS", "MINUS"}, "factor",
                             BinEv(f, rv, result))

\* the body of the loop of factor
Multiplicative(op, left, right) ==
    IF left.type = "NUMBER" /\ right.type = "NUMBER"
    THEN IF op = "STAR" THEN [left EXCEPT !.num = Times(left.num, right.num)]
         ELSE IF op = "SLASH" /\ ~IsZero(right.num)
         THEN [left EXCEPT !.num = Quot(left.num, right.num)]
         ELSE IF op = "PERCENT" /\ ~IsZero(right.num)
         THEN [left EXCEPT !.num = Fmod(left.num, right.num)]
         ELSE left
    ELSE left

factor ==
    /\ At("factor")
    /\ LET f == Top
           ops == {"STAR", "SLASH", "PERCENT"}
       IN
       CASE f.pc = "start" ->
              Go(current, Invoke([f EXCEPT !.pc = "left"], Frame("unary")), rv, NoEv)
         [] f.pc = "left" ->
              BinaryLoop(f, rv, ops, "unary", NoEv)
         [] f.pc = "right" ->
              LET result == Multiplicative(f.op, f.left, rv)
              IN  BinaryLoop(f, result, ops, "unary",
                             BinEv(f, rv, result))

unary ==
    /\ At("unary")
    /\ LET f == Top IN
       CASE f.pc = "start" ->
              IF Is(current, "BANG")
              THEN Go(current + 1, Invoke([f EXCEPT !.pc = "bang"], Frame("unary")),
                      rv, NoEv)
              ELSE IF Is(current, "MINUS")
              THEN Go(current + 1, Invoke([f EXCEPT !.pc = "minus"], Frame("unary")),
                      rv, NoEv)
              ELSE Go(current, Invoke([f EXCEPT !.pc = "done"], Frame("call")),
                      rv, NoEv)
         [] f.pc = "bang" ->
              Go(current, Return,
                 IF rv.type = "BOOL" THEN BoolV(~rv.boolean) ELSE BoolV(FALSE), NoEv)
         [] f.pc = "minus" ->
              Go(current, Return,
                 IF rv.type = "NUMBER"
                 THEN [rv EXCEPT !.num = Minus(Whole(0), rv.num)]
                 ELSE rv,
                 NoEv)
         [] f.pc = "done" ->
              Go(current, Return, rv, NoEv)

\* call(); slots: left = val, name = funcName, args = args.  History:
\* gPos = where call syntax was first applied to a value that is not
\* callable (-1 if nowhere), gVal = that value
call ==
    /\ At("call")
    /\ LET f == Top
           \* val = callFunction(funcName, args), entered at cursor c
           callIt(g, c, closed) ==
               Go(c,
                  Invoke([g EXCEPT !.pc = "called"],
                         [Frame("callFunction") EXCEPT !.name = g.name,
                                                       !.args = g.args,
                                                       !.gClosed = closed]),
                  rv, NoEv)
           \* while (!match(TOKEN_RPAREN)) at cursor c
           argLoop(g, c) ==
               IF Is(c, "RPAREN") THEN callIt(g, c + 1, TRUE)
               ELSE Go(c, Invoke([g EXCEPT !.pc = "arg"], Frame("expression")),
                       rv, NoEv)
           \* while (match(TOKEN_LPAREN)), then the array indexing
           parenLoop(g) ==
               IF Is(current, "LPAREN")
               THEN IF g.left.type = "STRING" /\ Has(functions, g.left.str)
                    THEN argLoop([g EXCEPT !.name = g.left.str, !.args = <<>>],
                                 current + 1)
                    ELSE Go(current + 1,
                            SetTop([g EXCEPT !.pc = "paren",
                                             !.gPos = IF g.gPos < 0 THEN current
                                                      ELSE g.gPos,
                                             !.gVal = IF g.gPos < 0 THEN g.left
                                                      ELSE g.gVal]),
                            rv, NoEv)
               ELSE IF Is(current, "LBRACKET")
               THEN Go(current + 1,
                       Invoke([g EXCEPT !.pc = "index"], Frame("expression")),
                       rv, NoEv)
               ELSE Go(current, Return, g.left,
                       [kind |-> "callexpr", pos |-> g.gPos, val |-> g.gVal,
                        result |-> g.left])
       IN
       CASE f.pc = "start" ->
              Go(current, Invoke([f EXCEPT !.pc = "prim"], Frame("primary")),
                 rv, NoEv)
         [] f.pc = "prim" ->
              parenLoop([f EXCEPT !.left = rv])
         [] f.pc = "paren" ->
              parenLoop(f)
         [] f.pc = "arg" ->
              LET g == [f EXCEPT !.args = Append(f.args, rv)]
              IN  IF Is(current, "COMMA") THEN argLoop(g, current + 1)
                  ELSE callIt(g, Match(current, "RPAREN"), Is(current, "RPAREN"))
         [] f.pc = "called" ->
              parenLoop([f EXCEPT !.left = rv])
         [] f.pc = "index" ->
              \E idx \in IntCasts(rv.num) :
                  LET index == rv
                      val == f.left
                      result == IF /\ val.type = "ARRAY"
                                   /\ index.type = "NUMBER"
                                   /\ idx >= 0
                                   /\ idx < Len(val.array)
                                THEN val.array[idx + 1]
                                ELSE val
                  IN  Go(Match(current, "RBRACKET"), Return, result,
                         [kind |-> "callexpr", pos |-> f.gPos, val |-> f.gVal,
                          result |-> result])

\* the scope frame callFunction binds: params[i] = args[i] for every i both
\* have, a later parameter of the same name overwriting an earlier one
BindParams(params, args) ==
    LET n == IF Len(params) < Len(args) THEN Len(params) ELSE Len(args)
        last(x) == CHOOSE i \in 1..n :
                       /\ params[i] = x
                       /\ \A j \in 1..n : params[j] = x => j <= i
    IN  [x \in {params[i] : i \in 1..n} |-> args[last(x)]]

\* a callFunction that forgets scopes.pop_back()
PopScopeForgotten(sc) == sc

\* scopes.pop_back()
PopScope(sc) == SubSeq(sc, 1, Len(sc) - 1)

\* the cursor callFunction leaves: current = savedCurrent
RestoreCursor(savedCurrent, cur) == savedCurrent

\* callFunction(); slots: name, args, saved = savedCurrent.  History:
\* gScopes = the scope stack on entry, gClosed = the call's argument list
\* ended with its closing parenthesis, gFresh, gReturned, gRetVal
callFunction ==
    /\ At("callFunction")
    /\ LET f == Top IN
       CASE f.pc = "start" ->
              IF ~Has(functions, f.name)
              THEN Go(current, Return, Nil, NoEv)
              ELSE LET func == functions[f.name] IN
                   /\ scopes' = Append(scopes, BindParams(func.params, f.args))
                   /\ current' = func.bodyStart
                   /\ hasReturned' = FALSE
                   /\ returnValue' = Nil
                   /\ ctl' = SetTop([f EXCEPT !.pc = "loop", !.saved = current,
                                              !.gScopes = scopes])
                   /\ ev' = [kind |-> "callenter", name |-> f.name,
                             missing |-> {func.params[i] :
                                            i \in (Len(f.args) + 1)..Len(func.params)}]
                   /\ UNCHANGED <<source, tokens, oob, globalVars, functions, out, rv,
                                  status>>
         [] f.pc = "loop" ->
              IF /\ current < functions[f.name].bodyEnd
                 /\ ~IsAtEnd(current)
                 /\ ~hasReturned
              THEN Go(current, Invoke(f, Frame("statement")), rv, NoEv)
              ELSE /\ rv' = returnValue
                   /\ hasReturned' = FALSE
                   /\ scopes' = PopScope(scopes)
                   /\ current' = RestoreCursor(f.saved, current)
                   /\ ctl' = Return
                   /\ ev' = [kind |-> "callret", name |-> f.name,
                             result |-> returnValue, returned |-> f.gReturned,
                             retVal |-> f.gRetVal, before |-> f.gScopes,
                             fresh |-> f.gFresh, saved |-> f.saved,
                             closed |-> f.gClosed]
                   /\ UNCHANGED <<source, tokens, oob, globalVars, functions, returnValue,
                                  out, status>>

\* primary(); slot args = arr
primary ==
    /\ At("primary")
    /\ LET f == Top
           tok == Tok(current)
           \* while (!match(TOKEN_RBRACKET)) at cursor c
           arrLoop(g, c) ==
               IF Is(c, "RBRACKET") THEN Go(c + 1, Return, ArrV(g.args), NoEv)
               ELSE Go(c, Invoke([g EXCEPT !.pc = "elem"], Frame("expression")),
                       rv, NoEv)
       IN
       CASE f.pc = "start" ->
              CASE tok.type = "NUMBER" ->
                     Go(current + 1, Return, NumV(Stod(tok.value)), NoEv)
                [] tok.type = "STRING" ->
                     Go(current + 1, Return,
                        StrV(Interpolate(tok.value, 1, scopes, globalVars)),
                        [kind |-> "strlit", text |-> tok.value])
                [] tok.type = "TRUE" -> Go(current + 1, Return, BoolV(TRUE), NoEv)
                [] tok.type = "FALSE" -> Go(current + 1, Return, BoolV(FALSE), NoEv)
                [] tok.type = "LBRACKET" -> arrLoop(f, current + 1)
                [] tok.type = "IDENTIFIER" ->
                     Go(current + 1, Return,
                        IF Has(functions, tok.value) THEN StrV(tok.value)
                        ELSE GetVariable(scopes, globalVars, tok.value),
                        NoEv)
                [] tok.type = "LPAREN" ->
                     Go(current + 1,
                        Invoke([f EXCEPT !.pc = "paren"], Frame("expression")),
                        rv, NoEv)
                [] OTHER -> Go(current, Return, Nil, NoEv)
         [] f.pc = "elem" ->
              LET g == [f EXCEPT !.args = Append(f.args, rv)]
              IN  IF Is(current, "COMMA") THEN arrLoop(g, current + 1)
                  ELSE Go(Match(current, "RBRACKET"), Return, ArrV(g.args), NoEv)
         [] f.pc = "paren" ->
              Go(Match(current, "RPAREN"), Return, rv, NoEv)

\* a read of tokens[current] past the end of the vector faults
Crash ==
    /\ status = "running"
    /\ current >= NTok
    /\ status' = "crashed"
    /\ ev' = NoEv
    /\ UNCHANGED <<source, tokens, oob, current, scopes, globalVars, functions,
                   hasReturned, returnValue, out, ctl, rv>>

(***************************************************************************)
(* The programs explored: the token vectors Lexer::tokenize produces for   *)
(* the source texts in the comments.                                       *)
(***************************************************************************)
\* fn g() { return 5; } fn f() { g(); } puts f();
ProgStaleReturn ==
    <<T("FN"), Id(<<"g">>), T("LPAREN"), T("RPAREN"), T("LBRACE"), T("RETURN"),
      Num(<<"5">>), T("SEMICOLON"), T("RBRACE"), T("FN"), Id(<<"f">>), T("LPAREN"),
      T("RPAREN"), T("LBRACE"), Id(<<"g">>), T("LPAREN"), T("RPAREN"), T("SEMICOLON"),
      T("RBRACE"), T("PUTS"), Id(<<"f">>), T("LPAREN"), T("RPAREN"), T("SEMICOLON"),
      T("EOF")>>

\* fn f(n) { let t = n; if n > 0 { f(n - 1); } return t; } puts f(1);
ProgRecLocal ==
    <<T("FN"), Id(<<"f">>), T("LPAREN"), Id(<<"n">>), T("RPAREN"), T("LBRACE"),
      T("LET"), Id(<<"t">>), T("EQUAL"), Id(<<"n">>), T("SEMICOLON"), T("IF"),
      Id(<<"n">>), T("GREATER"), Num(<<"0">>), T("LBRACE"), Id(<<"f">>), T("LPAREN"),
      Id(<<"n">>), T("MINUS"), Num(<<"1">>), T("RPAREN"), T("SEMICOLON"), T("RBRACE"),
      T("RETURN"), Id(<<"t">>), T("SEMICOLON"), T("RBRACE"), T("PUTS"), Id(<<"f">>),
      T("LPAREN"), Num(<<"1">>), T("RPAREN"), T("SEMICOLON"), T("EOF")>>

\* fn fact(n) { if n <= 1 { return 1; } return n * fact(n - 1); } puts fact(3);
ProgFact ==
    <<T("FN"), Id(<<"f", "a", "c", "t">>), T("LPAREN"), Id(<<"n">>), T("RPAREN"),
      T("LBRACE"), T("IF"), Id(<<"n">>), T("LESS_EQUAL"), Num(<<"1">>), T("LBRACE"),
      T("RETURN"), Num(<<"1">>), T("SEMICOLON"), T("RBRACE"), T("RETURN"), Id(<<"n">>),
      T("STAR"), Id(<<"f", "a", "c", "t">>), T("LPAREN"), Id(<<"n">>), T("MINUS"),
      Num(<<"1">>), T("RPAREN"), T("SEMICOLON"), T("RBRACE"), T("PUTS"),
      Id(<<"f", "a", "c", "t">>), T("LPAREN"), Num(<<"3">>), T("RPAREN"),
      T("SEMICOLON"), T("EOF")>>

\* let c = true; fn g() { return c; } fn f() { while g() { c = false; return 1; } puts 2; } puts f();
ProgWhileCall ==
    <<T("LET"), Id(<<"c">>), T("EQUAL"), T("TRUE"), T("SEMICOLON"), T("FN"),
      Id(<<"g">>), T("LPAREN"), T("RPAREN"), T("LBRACE"), T("RETURN"), Id(<<"c">>),
      T("SEMICOLON"), T("RBRACE"), T("FN"), Id(<<"f">>), T("LPAREN"), T("RPAREN"),
      T("LBRACE"), T("WHILE"), Id(<<"g">>), T("LPAREN"), T("RPAREN"), T("LBRACE"),
      Id(<<"c">>), T("EQUAL"), T("FALSE"), T("SEMICOLON"), T("RETURN"), Num(<<"1">>),
      T("SEMICOLON"), T("RBRACE"), T("PUTS"), Num(<<"2">>), T("SEMICOLON"),
      T("RBRACE"), T("PUTS"), Id(<<"f">>), T("LPAREN"), T("RPAREN"), T("SEMICOLON"),
      T("EOF")>>

\* fn f(x) { if x { for i in 0..3 { return i + 7; } puts 1; } else { puts 3; } puts 2; } puts f(1);
ProgEarlyReturn ==
    <<T("FN"), Id(<<"f">>), T("LPAREN"), Id(<<"x">>), T("RPAREN"), T("LBRACE"),
      T("IF"), Id(<<"x">>), T("LBRACE"), T("FOR"), Id(<<"i">>), T("IN"), Num(<<"0">>),
      T("DOTDOT"), Num(<<"3">>), T("LBRACE"), T("RETURN"), Id(<<"i">>), T("PLUS"),
      Num(<<"7">>), T("SEMICOLON"), T("RBRACE"), T("PUTS"), Num(<<"1">>),
      T("SEMICOLON"), T("RBRACE"), T("ELSE"), T("LBRACE"), T("PUTS"), Num(<<"3">>),
      T("SEMICOLON"), T("RBRACE"), T("PUTS"), Num(<<"2">>), T("SEMICOLON"),
      T("RBRACE"), T("PUTS"), Id(<<"f">>), T("LPAREN"), Num(<<"1">>), T("RPAREN"),
      T("SEMICOLON"), T("EOF")>>

\* fn w() { let i = 0; while i < 3 { i = i + 1; return i; } return 9; } puts w();
ProgWhileReturn ==
    <<T("FN"), Id(<<"w">>), T("LPAREN"), T("RPAREN"), T("LBRACE"), T("LET"),
      Id(<<"i">>), T("EQUAL"), Num(<<"0">>), T("SEMICOLON"), T("WHILE"), Id(<<"i">>),
      T("LESS"), Num(<<"3">>), T("LBRACE"), Id(<<"i">>), T("EQUAL"), Id(<<"i">>),
      T("PLUS"), Num(<<"1">>), T("SEMICOLON"), T("RETURN"), Id(<<"i">>),
      T("SEMICOLON"), T("RBRACE"), T("RETURN"), Num(<<"9">>), T("SEMICOLON"),
      T("RBRACE"), T("PUTS"), Id(<<"w">>), T("LPAREN"), T("RPAREN"), T("SEMICOLON"),
      T("EOF")>>

\* let u = 4; fn f(p) { let y = 1; z = 2; u = p; } f(5); puts y; puts z; puts u;
ProgLocal ==
    <<T("LET"), Id(<<"u">>), T("EQUAL"), Num(<<"4">>), T("SEMICOLON"), T("FN"),
      Id(<<"f">>), T("LPAREN"), Id(<<"p">>), T("RPAREN"), T("LBRACE"), T("LET"),
      Id(<<"y">>), T("EQUAL"), Num(<<"1">>), T("SEMICOLON"), Id(<<"z">>), T("EQUAL"),
      Num(<<"2">>), T("SEMICOLON"), Id(<<"u">>), T("EQUAL"), Id(<<"p">>),
      T("SEMICOLON"), T("RBRACE"), Id(<<"f">>), T("LPAREN"), Num(<<"5">>), T("RPAREN"),
      T("SEMICOLON"), T("PUTS"), Id(<<"y">>), T("SEMICOLON"), T("PUTS"), Id(<<"z">>),
      T("SEMICOLON"), T("PUTS"), Id(<<"u">>), T("SEMICOLON"), T("EOF")>>

\* let a = 7; fn f(a, b) { puts a; puts b; } f(); f(1, 2, 3);
ProgMissingArg ==
    <<T("LET"), Id(<<"a">>), T("EQUAL"), Num(<<"7">>), T("SEMICOLON"), T("FN"),
      Id(<<"f">>), T("LPAREN"), Id(<<"a">>), T("COMMA"), Id(<<"b">>), T("RPAREN"),
      T("LBRACE"), T("PUTS"), Id(<<"a">>), T("SEMICOLON"), T("PUTS"), Id(<<"b">>),
      T("SEMICOLON"), T("RBRACE"), Id(<<"f">>), T("LPAREN"), T("RPAREN"),
      T("SEMICOLON"), Id(<<"f">>), T("LPAREN"), Num(<<"1">>), T("COMMA"), Num(<<"2">>),
      T("COMMA"), Num(<<"3">>), T("RPAREN"), T("SEMICOLON"), T("EOF")>>

\* let
ProgTrailingLet ==
    <<T("LET"), T("EOF")>>

\* if true { puts 1;
ProgOpenIf ==
    <<T("IF"), T("TRUE"), T("LBRACE"), T("PUTS"), Num(<<"1">>), T("SEMICOLON"),
      T("EOF")>>

\* puts 1; fn f(
ProgOpenFn ==
    <<T("PUTS"), Num(<<"1">>), T("SEMICOLON"), T("FN"), Id(<<"f">>), T("LPAREN"),
      T("EOF")>>

\* x();
ProgNotCallable ==
    <<Id(<<"x">>), T("LPAREN"), T("RPAREN"), T("SEMICOLON"), T("EOF")>>

\* let s = "q"; puts 5(1) + 2; puts s(3, 4);
ProgNumberCall ==
    <<T("LET"), Id(<<"s">>), T("EQUAL"), Str(<<"q">>), T("SEMICOLON"), T("PUTS"),
      Num(<<"5">>), T("LPAREN"), Num(<<"1">>), T("RPAREN"), T("PLUS"), Num(<<"2">>),
      T("SEMICOLON"), T("PUTS"), Id(<<"s">>), T("LPAREN"), Num(<<"3">>), T("COMMA"),
      Num(<<"4">>), T("RPAREN"), T("SEMICOLON"), T("EOF")>>

\* while 1 { x = 1; } puts x;
ProgWhileNumber ==
    <<T("WHILE"), Num(<<"1">>), T("LBRACE"), Id(<<"x">>), T("EQUAL"), Num(<<"1">>),
      T("SEMICOLON"), T("RBRACE"), T("PUTS"), Id(<<"x">>), T("SEMICOLON"), T("EOF")>>

\* let n = 0; while "s" { puts 1; n = 1; } puts n;
ProgWhileString ==
    <<T("LET"), Id(<<"n">>), T("EQUAL"), Num(<<"0">>), T("SEMICOLON"), T("WHILE"),
      Str(<<"s">>), T("LBRACE"), T("PUTS"), Num(<<"1">>), T("SEMICOLON"), Id(<<"n">>),
      T("EQUAL"), Num(<<"1">>), T("SEMICOLON"), T("RBRACE"), T("PUTS"), Id(<<"n">>),
      T("SEMICOLON"), T("EOF")>>

\* while [1] { puts 1; }
ProgWhileArray ==
    <<T("WHILE"), T("LBRACKET"), Num(<<"1">>), T("RBRACKET"), T("LBRACE"), T("PUTS"),
      Num(<<"1">>), T("SEMICOLON"), T("RBRACE"), T("EOF")>>

\* while k { puts 1; fn h() { } }
ProgWhileNil ==
    <<T("WHILE"), Id(<<"k">>), T("LBRACE"), T("PUTS"), Num(<<"1">>), T("SEMICOLON"),
      T("FN"), Id(<<"h">>), T("LPAREN"), T("RPAREN"), T("LBRACE"), T("RBRACE"),
      T("RBRACE"), T("EOF")>>

\* let i = 0; while i < 2 { i = i + 1; } puts i;
ProgWhileCount ==
    <<T("LET"), Id(<<"i">>), T("EQUAL"), Num(<<"0">>), T("SEMICOLON"), T("WHILE"),
      Id(<<"i">>), T("LESS"), Num(<<"2">>), T("LBRACE"), Id(<<"i">>), T("EQUAL"),
      Id(<<"i">>), T("PLUS"), Num(<<"1">>), T("SEMICOLON"), T("RBRACE"), T("PUTS"),
      Id(<<"i">>), T("SEMICOLON"), T("EOF")>>

\* for i in 0..3 { puts i; }
ProgFor ==
    <<T("FOR"), Id(<<"i">>), T("IN"), Num(<<"0">>), T("DOTDOT"), Num(<<"3">>),
      T("LBRACE"), T("PUTS"), Id(<<"i">>), T("SEMICOLON"), T("RBRACE"), T("EOF")>>

\* if 0 { puts 1; } else { puts 2; } if "s" { puts 3; }
ProgIfElse ==
    <<T("IF"), Num(<<"0">>), T("LBRACE"), T("PUTS"), Num(<<"1">>), T("SEMICOLON"),
      T("RBRACE"), T("ELSE"), T("LBRACE"), T("PUTS"), Num(<<"2">>), T("SEMICOLON"),
      T("RBRACE"), T("IF"), Str(<<"s">>), T("LBRACE"), T("PUTS"), Num(<<"3">>),
      T("SEMICOLON"), T("RBRACE"), T("EOF")>>

\* let a = [1, 2]; puts a[1]; puts a; puts [];
ProgArray ==
    <<T("LET"), Id(<<"a">>), T("EQUAL"), T("LBRACKET"), Num(<<"1">>), T("COMMA"),
      Num(<<"2">>), T("RBRACKET"), T("SEMICOLON"), T("PUTS"), Id(<<"a">>),
      T("LBRACKET"), Num(<<"1">>), T("RBRACKET"), T("SEMICOLON"), T("PUTS"),
      Id(<<"a">>), T("SEMICOLON"), T("PUTS"), T("LBRACKET"), T("RBRACKET"),
      T("SEMICOLON"), T("EOF")>>

\* puts -3 + 2 * 4 - 6 / 2 % 2; puts !true || 1 && (2 < 3); puts "a" + "b" == "ab";
ProgOps ==
    <<T("PUTS"), T("MINUS"), Num(<<"3">>), T("PLUS"), Num(<<"2">>), T("STAR"),
      Num(<<"4">>), T("MINUS"), Num(<<"6">>), T("SLASH"), Num(<<"2">>), T("PERCENT"),
      Num(<<"2">>), T("SEMICOLON"), T("PUTS"), T("BANG"), T("TRUE"), T("OR"),
      Num(<<"1">>), T("AND"), T("LPAREN"), Num(<<"2">>), T("LESS"), Num(<<"3">>),
      T("RPAREN"), T("SEMICOLON"), T("PUTS"), Str(<<"a">>), T("PLUS"), Str(<<"b">>),
      T("EQUAL_EQUAL"), Str(<<"a", "b">>), T("SEMICOLON"), T("EOF")>>

\* let x = 3; puts "v=#{x}!";
ProgInterp ==
    <<T("LET"), Id(<<"x">>), T("EQUAL"), Num(<<"3">>), T("SEMICOLON"), T("PUTS"),
      Str(<<"v", "=", "#", "{", "x", "}", "!">>), T("SEMICOLON"), T("EOF")>>

\* fn f() { return 1; } let s = "f"; puts s();
ProgStringCall ==
    <<T("FN"), Id(<<"f">>), T("LPAREN"), T("RPAREN"), T("LBRACE"), T("RETURN"),
      Num(<<"1">>), T("SEMICOLON"), T("RBRACE"), T("LET"), Id(<<"s">>), T("EQUAL"),
      Str(<<"f">>), T("SEMICOLON"), T("PUTS"), Id(<<"s">>), T("LPAREN"), T("RPAREN"),
      T("SEMICOLON"), T("EOF")>>

\* for x 1; for i in 1; for i in 1..2; if 1 puts 2;
ProgBadHeaders ==
    <<T("FOR"), Id(<<"x">>), Num(<<"1">>), T("SEMICOLON"), T("FOR"), Id(<<"i">>),
      T("IN"), Num(<<"1">>), T("SEMICOLON"), T("FOR"), Id(<<"i">>), T("IN"),
      Num(<<"1">>), T("DOTDOT"), Num(<<"2">>), T("SEMICOLON"), T("IF"), Num(<<"1">>),
      T("PUTS"), Num(<<"2">>), T("SEMICOLON"), T("EOF")>>


\* let n = 1; fn f(n) { n = n + 1; if n < 4 { f(n); } return n; } puts f(n); puts n;
ProgShadow ==
    <<T("LET"), Id(<<"n">>), T("EQUAL"), Num(<<"1">>), T("SEMICOLON"), T("FN"),
      Id(<<"f">>), T("LPAREN"), Id(<<"n">>), T("RPAREN"), T("LBRACE"), Id(<<"n">>),
      T("EQUAL"), Id(<<"n">>), T("PLUS"), Num(<<"1">>), T("SEMICOLON"), T("IF"),
      Id(<<"n">>), T("LESS"), Num(<<"4">>), T("LBRACE"), Id(<<"f">>), T("LPAREN"),
      Id(<<"n">>), T("RPAREN"), T("SEMICOLON"), T("RBRACE"), T("RETURN"), Id(<<"n">>),
      T("SEMICOLON"), T("RBRACE"), T("PUTS"), Id(<<"f">>), T("LPAREN"), Id(<<"n">>),
      T("RPAREN"), T("SEMICOLON"), T("PUTS"), Id(<<"n">>), T("SEMICOLON"), T("EOF")>>

\* while 1 puts 2; } puts 3;
ProgWhileNoBrace ==
    <<T("WHILE"), Num(<<"1">>), T("PUTS"), Num(<<"2">>), T("SEMICOLON"), T("RBRACE"),
      T("PUTS"), Num(<<"3">>), T("SEMICOLON"), T("EOF")>>

\* fn f(a) { return a; } puts f(1;
ProgUnclosedCall ==
    <<T("FN"), Id(<<"f">>), T("LPAREN"), Id(<<"a">>), T("RPAREN"), T("LBRACE"),
      T("RETURN"), Id(<<"a">>), T("SEMICOLON"), T("RBRACE"), T("PUTS"), Id(<<"f">>),
      T("LPAREN"), Num(<<"1">>), T("SEMICOLON"), T("EOF")>>

\* for i in 0 - 1.5..1.5 { puts i; i = 7; }
ProgForTrunc ==
    <<T("FOR"), Id(<<"i">>), T("IN"), Num(<<"0">>), T("MINUS"), Num(<<"1", ".", "5">>),
      T("DOTDOT"), Num(<<"1", ".", "5">>), T("LBRACE"), T("PUTS"), Id(<<"i">>),
      T("SEMICOLON"), Id(<<"i">>), T("EQUAL"), Num(<<"7">>), T("SEMICOLON"),
      T("RBRACE"), T("EOF")>>

\* for i in 3..1 { puts i; } for j in 0..true { puts j; } puts 9;
ProgForEmpty ==
    <<T("FOR"), Id(<<"i">>), T("IN"), Num(<<"3">>), T("DOTDOT"), Num(<<"1">>),
      T("LBRACE"), T("PUTS"), Id(<<"i">>), T("SEMICOLON"), T("RBRACE"), T("FOR"),
      Id(<<"j">>), T("IN"), Num(<<"0">>), T("DOTDOT"), T("TRUE"), T("LBRACE"),
      T("PUTS"), Id(<<"j">>), T("SEMICOLON"), T("RBRACE"), T("PUTS"), Num(<<"9">>),
      T("SEMICOLON"), T("EOF")>>

\* for i in 2147483646..2147483648 { puts i; }
ProgForHuge ==
    <<T("FOR"), Id(<<"i">>), T("IN"),
      Num(<<"2", "1", "4", "7", "4", "8", "3", "6", "4", "6">>), T("DOTDOT"),
      Num(<<"2", "1", "4", "7", "4", "8", "3", "6", "4", "8">>), T("LBRACE"),
      T("PUTS"), Id(<<"i">>), T("SEMICOLON"), T("RBRACE"), T("EOF")>>

\* if [1] { puts 1; } else { puts 2; } if k { puts 3; } if "" { puts 4; } else { puts 5; } if true { puts 6; puts 7; } if 0.5 { puts 8; }
ProgIfKinds ==
    <<T("IF"), T("LBRACKET"), Num(<<"1">>), T("RBRACKET"), T("LBRACE"), T("PUTS"),
      Num(<<"1">>), T("SEMICOLON"), T("RBRACE"), T("ELSE"), T("LBRACE"), T("PUTS"),
      Num(<<"2">>), T("SEMICOLON"), T("RBRACE"), T("IF"), Id(<<"k">>), T("LBRACE"),
      T("PUTS"), Num(<<"3">>), T("SEMICOLON"), T("RBRACE"), T("IF"), Str(<<>>),
      T("LBRACE"), T("PUTS"), Num(<<"4">>), T("SEMICOLON"), T("RBRACE"), T("ELSE"),
      T("LBRACE"), T("PUTS"), Num(<<"5">>), T("SEMICOLON"), T("RBRACE"), T("IF"),
      T("TRUE"), T("LBRACE"), T("PUTS"), Num(<<"6">>), T("SEMICOLON"), T("PUTS"),
      Num(<<"7">>), T("SEMICOLON"), T("RBRACE"), T("IF"), Num(<<"0", ".", "5">>),
      T("LBRACE"), T("PUTS"), Num(<<"8">>), T("SEMICOLON"), T("RBRACE"), T("EOF")>>

\* let v = [6, 0, 2.5, "a", true, [2], n]; for i in 0..7 { for j in 0..7 { v[i] + v[j]; v[i] - v[j]; v[i] * v[j]; v[i] / v[j]; v[i] % v[j]; } }
ProgArith ==
    <<T("LET"), Id(<<"v">>), T("EQUAL"), T("LBRACKET"), Num(<<"6">>), T("COMMA"),
      Num(<<"0">>), T("COMMA"), Num(<<"2", ".", "5">>), T("COMMA"), Str(<<"a">>),
      T("COMMA"), T("TRUE"), T("COMMA"), T("LBRACKET"), Num(<<"2">>), T("RBRACKET"),
      T("COMMA"), Id(<<"n">>), T("RBRACKET"), T("SEMICOLON"), T("FOR"), Id(<<"i">>),
      T("IN"), Num(<<"0">>), T("DOTDOT"), Num(<<"7">>), T("LBRACE"), T("FOR"),
      Id(<<"j">>), T("IN"), Num(<<"0">>), T("DOTDOT"), Num(<<"7">>), T("LBRACE"),
      Id(<<"v">>), T("LBRACKET"), Id(<<"i">>), T("RBRACKET"), T("PLUS"), Id(<<"v">>),
      T("LBRACKET"), Id(<<"j">>), T("RBRACKET"), T("SEMICOLON"), Id(<<"v">>),
      T("LBRACKET"), Id(<<"i">>), T("RBRACKET"), T("MINUS"), Id(<<"v">>),
      T("LBRACKET"), Id(<<"j">>), T("RBRACKET"), T("SEMICOLON"), Id(<<"v">>),
      T("LBRACKET"), Id(<<"i">>), T("RBRACKET"), T("STAR"), Id(<<"v">>), T("LBRACKET"),
      Id(<<"j">>), T("RBRACKET"), T("SEMICOLON"), Id(<<"v">>), T("LBRACKET"),
      Id(<<"i">>), T("RBRACKET"), T("SLASH"), Id(<<"v">>), T("LBRACKET"), Id(<<"j">>),
      T("RBRACKET"), T("SEMICOLON"), Id(<<"v">>), T("LBRACKET"), Id(<<"i">>),
      T("RBRACKET"), T("PERCENT"), Id(<<"v">>), T("LBRACKET"), Id(<<"j">>),
      T("RBRACKET"), T("SEMICOLON"), T("RBRACE"), T("RBRACE"), T("EOF")>>

\* let v = [1, 2, "a", true, [2], n]; for i in 0..6 { for j in 0..6 { v[i] == v[j]; v[i] != v[j]; v[i] < v[j]; v[i] > v[j]; v[i] <= v[j]; v[i] >= v[j]; } }
ProgCompare ==
    <<T("LET"), Id(<<"v">>), T("EQUAL"), T("LBRACKET"), Num(<<"1">>), T("COMMA"),
      Num(<<"2">>), T("COMMA"), Str(<<"a">>), T("COMMA"), T("TRUE"), T("COMMA"),
      T("LBRACKET"), Num(<<"2">>), T("RBRACKET"), T("COMMA"), Id(<<"n">>),
      T("RBRACKET"), T("SEMICOLON"), T("FOR"), Id(<<"i">>), T("IN"), Num(<<"0">>),
      T("DOTDOT"), Num(<<"6">>), T("LBRACE"), T("FOR"), Id(<<"j">>), T("IN"),
      Num(<<"0">>), T("DOTDOT"), Num(<<"6">>), T("LBRACE"), Id(<<"v">>), T("LBRACKET"),
      Id(<<"i">>), T("RBRACKET"), T("EQUAL_EQUAL"), Id(<<"v">>), T("LBRACKET"),
      Id(<<"j">>), T("RBRACKET"), T("SEMICOLON"), Id(<<"v">>), T("LBRACKET"),
      Id(<<"i">>), T("RBRACKET"), T("BANG_EQUAL"), Id(<<"v">>), T("LBRACKET"),
      Id(<<"j">>), T("RBRACKET"), T("SEMICOLON"), Id(<<"v">>), T("LBRACKET"),
      Id(<<"i">>), T("RBRACKET"), T("LESS"), Id(<<"v">>), T("LBRACKET"), Id(<<"j">>),
      T("RBRACKET"), T("SEMICOLON"), Id(<<"v">>), T("LBRACKET"), Id(<<"i">>),
      T("RBRACKET"), T("GREATER"), Id(<<"v">>), T("LBRACKET"), Id(<<"j">>),
      T("RBRACKET"), T("SEMICOLON"), Id(<<"v">>), T("LBRACKET"), Id(<<"i">>),
      T("RBRACKET"), T("LESS_EQUAL"), Id(<<"v">>), T("LBRACKET"), Id(<<"j">>),
      T("RBRACKET"), T("SEMICOLON"), Id(<<"v">>), T("LBRACKET"), Id(<<"i">>),
      T("RBRACKET"), T("GREATER_EQUAL"), Id(<<"v">>), T("LBRACKET"), Id(<<"j">>),
      T("RBRACKET"), T("SEMICOLON"), T("RBRACE"), T("RBRACE"), T("EOF")>>

\* let n = 0; fn g() { return n < 2; } fn f() { while g() { n = n + 1; return n; } } puts f(); puts n;
ProgWhileAgain ==
    <<T("LET"), Id(<<"n">>), T("EQUAL"), Num(<<"0">>), T("SEMICOLON"), T("FN"),
      Id(<<"g">>), T("LPAREN"), T("RPAREN"), T("LBRACE"), T("RETURN"), Id(<<"n">>),
      T("LESS"), Num(<<"2">>), T("SEMICOLON"), T("RBRACE"), T("FN"), Id(<<"f">>),
      T("LPAREN"), T("RPAREN"), T("LBRACE"), T("WHILE"), Id(<<"g">>), T("LPAREN"),
      T("RPAREN"), T("LBRACE"), Id(<<"n">>), T("EQUAL"), Id(<<"n">>), T("PLUS"),
      Num(<<"1">>), T("SEMICOLON"), T("RETURN"), Id(<<"n">>), T("SEMICOLON"),
      T("RBRACE"), T("RBRACE"), T("PUTS"), Id(<<"f">>), T("LPAREN"), T("RPAREN"),
      T("SEMICOLON"), T("PUTS"), Id(<<"n">>), T("SEMICOLON"), T("EOF")>>

\* let c = true; while c { if c { c = false; } else { puts 0; } } for i in 0..2 { if i { puts i; } } if c { puts 1; } else { if true { puts 2; } } puts 3;
ProgNested ==
    <<T("LET"), Id(<<"c">>), T("EQUAL"), T("TRUE"), T("SEMICOLON"), T("WHILE"),
      Id(<<"c">>), T("LBRACE"), T("IF"), Id(<<"c">>), T("LBRACE"), Id(<<"c">>),
      T("EQUAL"), T("FALSE"), T("SEMICOLON"), T("RBRACE"), T("ELSE"), T("LBRACE"),
      T("PUTS"), Num(<<"0">>), T("SEMICOLON"), T("RBRACE"), T("RBRACE"), T("FOR"),
      Id(<<"i">>), T("IN"), Num(<<"0">>), T("DOTDOT"), Num(<<"2">>), T("LBRACE"),
      T("IF"), Id(<<"i">>), T("LBRACE"), T("PUTS"), Id(<<"i">>), T("SEMICOLON"),
      T("RBRACE"), T("RBRACE"), T("IF"), Id(<<"c">>), T("LBRACE"), T("PUTS"),
      Num(<<"1">>), T("SEMICOLON"), T("RBRACE"), T("ELSE"), T("LBRACE"), T("IF"),
      T("TRUE"), T("LBRACE"), T("PUTS"), Num(<<"2">>), T("SEMICOLON"), T("RBRACE"),
      T("RBRACE"), T("PUTS"), Num(<<"3">>), T("SEMICOLON"), T("EOF")>>

\* fn f(a) { return 1; } puts f(0); fn f() { if true { return 2; } } puts f(0);
ProgRedefine ==
    <<T("FN"), Id(<<"f">>), T("LPAREN"), Id(<<"a">>), T("RPAREN"), T("LBRACE"),
      T("RETURN"), Num(<<"1">>), T("SEMICOLON"), T("RBRACE"), T("PUTS"), Id(<<"f">>),
      T("LPAREN"), Num(<<"0">>), T("RPAREN"), T("SEMICOLON"), T("FN"), Id(<<"f">>),
      T("LPAREN"), T("RPAREN"), T("LBRACE"), T("IF"), T("TRUE"), T("LBRACE"),
      T("RETURN"), Num(<<"2">>), T("SEMICOLON"), T("RBRACE"), T("RBRACE"), T("PUTS"),
      Id(<<"f">>), T("LPAREN"), Num(<<"0">>), T("RPAREN"), T("SEMICOLON"), T("EOF")>>

\* while false { puts 1;
ProgOpenWhile ==
    <<T("WHILE"), T("FALSE"), T("LBRACE"), T("PUTS"), Num(<<"1">>), T("SEMICOLON"),
      T("EOF")>>

\* for i in 0..1 { puts i;
ProgOpenFor ==
    <<T("FOR"), Id(<<"i">>), T("IN"), Num(<<"0">>), T("DOTDOT"), Num(<<"1">>),
      T("LBRACE"), T("PUTS"), Id(<<"i">>), T("SEMICOLON"), T("EOF")>>

\* puts 0; fn f() { puts 1;
ProgOpenBody ==
    <<T("PUTS"), Num(<<"0">>), T("SEMICOLON"), T("FN"), Id(<<"f">>), T("LPAREN"),
      T("RPAREN"), T("LBRACE"), T("PUTS"), Num(<<"1">>), T("SEMICOLON"), T("EOF")>>

\* if false { } else { puts 1;
ProgOpenElse ==
    <<T("IF"), T("FALSE"), T("LBRACE"), T("RBRACE"), T("ELSE"), T("LBRACE"), T("PUTS"),
      Num(<<"1">>), T("SEMICOLON"), T("EOF")>>

\* puts 1; return 2; puts 3;
ProgTopReturn ==
    <<T("PUTS"), Num(<<"1">>), T("SEMICOLON"), T("RETURN"), Num(<<"2">>),
      T("SEMICOLON"), T("PUTS"), Num(<<"3">>), T("SEMICOLON"), T("EOF")>>

\* if true { return 1; } puts 2;
ProgIfReturn ==
    <<T("IF"), T("TRUE"), T("LBRACE"), T("RETURN"), Num(<<"1">>), T("SEMICOLON"),
      T("RBRACE"), T("PUTS"), Num(<<"2">>), T("SEMICOLON"), T("EOF")>>

\* puts 1; ) puts 2;
ProgStray ==
    <<T("PUTS"), Num(<<"1">>), T("SEMICOLON"), T("RPAREN"), T("PUTS"), Num(<<"2">>),
      T("SEMICOLON"), T("EOF")>>

\* let v = [true, false, 0, 2, "a", [1], n]; for i in 0..7 { for j in 0..7 { v[i] && v[j]; v[i] || v[j]; } } fn t() { puts 1; return true; } puts true || t(); puts false && t();
ProgLogic ==
    <<T("LET"), Id(<<"v">>), T("EQUAL"), T("LBRACKET"), T("TRUE"), T("COMMA"),
      T("FALSE"), T("COMMA"), Num(<<"0">>), T("COMMA"), Num(<<"2">>), T("COMMA"),
      Str(<<"a">>), T("COMMA"), T("LBRACKET"), Num(<<"1">>), T("RBRACKET"), T("COMMA"),
      Id(<<"n">>), T("RBRACKET"), T("SEMICOLON"), T("FOR"), Id(<<"i">>), T("IN"),
      Num(<<"0">>), T("DOTDOT"), Num(<<"7">>), T("LBRACE"), T("FOR"), Id(<<"j">>),
      T("IN"), Num(<<"0">>), T("DOTDOT"), Num(<<"7">>), T("LBRACE"), Id(<<"v">>),
      T("LBRACKET"), Id(<<"i">>), T("RBRACKET"), T("AND"), Id(<<"v">>), T("LBRACKET"),
      Id(<<"j">>), T("RBRACKET"), T("SEMICOLON"), Id(<<"v">>), T("LBRACKET"),
      Id(<<"i">>), T("RBRACKET"), T("OR"), Id(<<"v">>), T("LBRACKET"), Id(<<"j">>),
      T("RBRACKET"), T("SEMICOLON"), T("RBRACE"), T("RBRACE"), T("FN"), Id(<<"t">>),
      T("LPAREN"), T("RPAREN"), T("LBRACE"), T("PUTS"), Num(<<"1">>), T("SEMICOLON"),
      T("RETURN"), T("TRUE"), T("SEMICOLON"), T("RBRACE"), T("PUTS"), T("TRUE"),
      T("OR"), Id(<<"t">>), T("LPAREN"), T("RPAREN"), T("SEMICOLON"), T("PUTS"),
      T("FALSE"), T("AND"), Id(<<"t">>), T("LPAREN"), T("RPAREN"), T("SEMICOLON"),
      T("EOF")>>

\* let y = 5; puts "#{q"; puts "x#{y}z#{y}"; puts "a}#{y}"; puts "#{n}";
ProgInterpKinds ==
    <<T("LET"), Id(<<"y">>), T("EQUAL"), Num(<<"5">>), T("SEMICOLON"), T("PUTS"),
      Str(<<"#", "{", "q">>), T("SEMICOLON"), T("PUTS"),
      Str(<<"x", "#", "{", "y", "}", "z", "#", "{", "y", "}">>), T("SEMICOLON"),
      T("PUTS"), Str(<<"a", "}", "#", "{", "y", "}">>), T("SEMICOLON"), T("PUTS"),
      Str(<<"#", "{", "n", "}">>), T("SEMICOLON"), T("EOF")>>

\* let s = "a#" + "{y}"; let y = 5; puts "v=#{s}!";
ProgInterpTwice ==
    <<T("LET"), Id(<<"s">>), T("EQUAL"), Str(<<"a", "#">>), T("PLUS"),
      Str(<<"{", "y", "}">>), T("SEMICOLON"), T("LET"), Id(<<"y">>), T("EQUAL"),
      Num(<<"5">>), T("SEMICOLON"), T("PUTS"),
      Str(<<"v", "=", "#", "{", "s", "}", "!">>), T("SEMICOLON"), T("EOF")>>

Programs ==
    {ProgStaleReturn, ProgRecLocal, ProgFact, ProgWhileCall, ProgEarlyReturn,
     ProgWhileReturn, ProgLocal, ProgMissingArg, ProgTrailingLet, ProgOpenIf,
     ProgOpenFn, ProgNotCallable, ProgNumberCall, ProgWhileNumber,
     ProgWhileString, ProgWhileArray, ProgWhileNil, ProgWhileCount, ProgFor,
     ProgIfElse, ProgArray, ProgOps, ProgInterp, ProgStringCall, ProgBadHeaders,
     ProgShadow, ProgWhileNoBrace, ProgUnclosedCall, ProgForTrunc, ProgForEmpty,
     ProgForHuge, ProgIfKinds, ProgArith, ProgCompare, ProgWhileAgain,
     ProgNested, ProgRedefine, ProgOpenWhile, ProgOpenFor, ProgOpenBody,
     ProgOpenElse,
     ProgTopReturn, ProgIfReturn,
     ProgStray,
     ProgLogic,
     ProgInterpKinds, ProgInterpTwice}

\* what a read past the end of the vector may find there
OobTokens == {T("EOF"), T("SEMICOLON")}

(***************************************************************************)
(* The state after main constructed the Interpreter and called execute().  *)
(***************************************************************************)
Init ==
    /\ source = <<>>
    /\ tokens \in Programs
    /\ oob \in OobTokens
    /\ current = 0
    /\ scopes = <<EmptyMap>>
    /\ globalVars = EmptyMap
    /\ functions = EmptyMap
    /\ hasReturned = FALSE
    /\ returnValue = Nil
    /\ out = <<>>
    /\ ctl = <<Frame("execute")>>
    /\ rv = Nil
    /\ status = "running"
    /\ ev = NoEv

Next ==
    \/ execute
    \/ statement
    \/ letStatement
    \/ functionDeclaration
    \/ returnStatement
    \/ putsStatement
    \/ ifStatement
    \/ whileStatement
    \/ forStatement
    \/ expression
    \/ logicalOr
    \/ logicalAnd
    \/ comparison
    \/ term
    \/ factor
    \/ unary
    \/ call
    \/ callFunction
    \/ primary
    \/ Crash

Spec == Init /\ [][Next]_vars

(***************************************************************************)
(* main from the source text on: the lexer runs, then the interpreter.     *)
(***************************************************************************)
\* the characters the short source texts are built from
LexAlphabet == {"\"", "\\", "&", "|", "@", "1", ".", "a", " ", ";", "/", "\n"}

\* the texts over LexAlphabet of at most n characters
RECURSIVE ShortTexts(_)
ShortTexts(n) ==
    IF n = 0 THEN {<<>>}
    ELSE LET S == ShortTexts(n - 1)
         IN  S \cup {Append(t, c) : t \in {x \in S : Len(x) = n - 1},
                                    c \in LexAlphabet}

\* fn f(a){return a;}let x=f(1);puts x;if x{}while 0{}for i in 0..1{}
TextEverything ==
    <<"f", "n", " ", "f", "(", "a", ")", "{", "r", "e", "t", "u", "r", "n",
      " ", "a", ";", "}", "l", "e", "t", " ", "x", "=", "f", "(", "1", ")",
      ";", "p", "u", "t", "s", " ", "x", ";", "i", "f", " ", "x", "{", "}",
      "w", "h", "i", "l", "e", " ", "0", "{", "}", "f", "o", "r", " ", "i",
      " ", "i", "n", " ", "0", ".", ".", "1", "{", "}">>

\* let
TextLet ==
    <<"l", "e", "t">>

\* puts "abc
TextOpenString ==
    <<"p", "u", "t", "s", " ", "\"", "a", "b", "c">>

\* puts 1; @ puts 2;
TextStrayChar ==
    <<"p", "u", "t", "s", " ", "1", ";", " ", "@", " ", "p", "u", "t", "s",
      " ", "2", ";">>

\* puts 1 & 2; puts 3;
TextLoneAmp ==
    <<"p", "u", "t", "s", " ", "1", " ", "&", " ", "2", ";", " ", "p", "u",
      "t", "s", " ", "3", ";">>

\* 1..5
TextRange ==
    <<"1", ".", ".", "5">>

\* 1.5
TextFloat ==
    <<"1", ".", "5">>

\* 1.5..2.5
TextFloatRange ==
    <<"1", ".", "5", ".", ".", "2", ".", "5">>

\* 12.
TextTrailingDot ==
    <<"1", "2", ".">>

Texts ==
    ShortTexts(MaxSourceLen)
        \cup {TextEverything, TextLet, TextOpenString, TextStrayChar, TextLoneAmp,
              TextRange, TextFloat, TextFloatRange, TextTrailingDot}

\* the state after main read the file
MainInit ==
    /\ source \in Texts
    /\ tokens = <<>>
    /\ oob \in OobTokens
    /\ current = 0
    /\ scopes = <<EmptyMap>>
    /\ globalVars = EmptyMap
    /\ functions = EmptyMap
    /\ hasReturned = FALSE
    /\ returnValue = Nil
    /\ out = <<>>
    /\ ctl = <<>>
    /\ rv = Nil
    /\ status = "lexing"
    /\ ev = NoEv

\* main: lexer.tokenize(), then the Interpreter is constructed on the
\* tokens and execute() is called
main ==
    /\ status = "lexing"
    /\ tokens' = tokenize(source, 0, <<>>)
    /\ source' = <<>>
    /\ status' = "running"
    /\ ctl' = <<Frame("execute")>>
    /\ ev' = [kind |-> "lexed", source |-> source]
    /\ UNCHANGED <<oob, current, scopes, globalVars, functions, hasReturned,
                   returnValue, out, rv>>

MainNext ==
    \/ main
    \/ Next

MainSpec == MainInit /\ [][MainNext]_vars

(***************************************************************************)
(* Properties.                                                             *)
(***************************************************************************)
\* the frame of the caller in scope stack sc
TopFrame(sc) == sc[Len(sc)]

\* C1: a call whose own body executed no return statement yields Nil,
\* whatever the calls made by its body returned
C1_NoReturnYieldsNil ==
    (ev.kind = "callret" /\ ~ev.returned) => ev.result = Nil

\* C2: across a call made by a function body and its return, every binding
\* of the caller's frame has the value it had before the call
C2_CallerFramePreserved ==
    (ev.kind = "callret" /\ Len(ev.before) > 1)
        => TopFrame(scopes) = TopFrame(ev.before)

\* C3: once a return statement executed in a call, no further statement of
\* that call starts, the pending-return flag stays set until the call ends,
\* and the call yields the value of that first return
C3_ReturnStopsTheCall ==
    /\ ev.kind = "stmt" => ~ev.afterReturn
    /\ LET i == InnerCall(ctl, Len(ctl))
       IN  (i # 0 /\ ctl[i].gReturned) => hasReturned
    /\ (ev.kind = "callret" /\ ev.returned) => ev.result = ev.retVal

\* C4: the scope stack holds one frame per active call above frame 0; when
\* a call returns the stack is as deep as before the call, the cursor is
\* the caller's saved cursor, just after the call's closing parenthesis,
\* and the pending-return flag is clear
C4_CallReturnIsLifo ==
    /\ Len(scopes) = 1 + ActiveCalls
    /\ ev.kind = "callret" =>
         /\ Len(scopes) = Len(ev.before)
         /\ current = ev.saved
         /\ ~hasReturned
         /\ ev.closed => Is(current - 1, "RPAREN")

\* a call made by a function body, whose argument list was closed, returned
C4_Witness ==
    /\ ev.kind = "callret"
    /\ Len(scopes) > 1
    /\ ev.closed
    /\ ev.returned

\* the frames of scope stack sc that bind name
Binders(sc, name) == {k \in 1..Len(sc) : name \in DOMAIN sc[k]}

\* the frame write(name, _) is to change in scope stack sc
WriteTarget(sc, name) ==
    IF Binders(sc, name) = {} THEN Len(sc)
    ELSE CHOOSE k \in Binders(sc, name) : \A j \in Binders(sc, name) : j <= k

\* C5: write(name, value) sets the binding of name in the innermost frame
\* that binds it, or creates it in the top frame if none does; every other
\* frame and every other name are unchanged, and read(name) returns value
C5_WriteChangesOneBinding ==
    ev.kind = "write" =>
        LET t == WriteTarget(ev.before, ev.name) IN
        /\ Len(scopes) = Len(ev.before)
        /\ \A k \in 1..Len(scopes) : k # t => scopes[k] = ev.before[k]
        /\ DOMAIN scopes[t] = (DOMAIN ev.before[t]) \cup {ev.name}
        /\ \A m \in (DOMAIN ev.before[t]) \ {ev.name} :
               scopes[t][m] = ev.before[t][m]
        /\ scopes[t][ev.name] = ev.val
        /\ GetVariable(scopes, globalVars, ev.name) = ev.val

\* a function body assigned a name that only an outer frame bound
C5_Witness ==
    /\ ev.kind = "write"
    /\ Len(scopes) > 1
    /\ Binders(ev.before, ev.name) = {1}
    /\ scopes[1][ev.name] # ev.before[1][ev.name]

\* C6: a name no frame binds when a function body assigns it leaves the
\* caller's frames unchanged, and after the call returns no remaining frame
\* binds it: it reads as Nil
C6_UndeclaredNameStaysLocal ==
    /\ (ev.kind = "write" /\ Len(ev.before) > 1 /\ Binders(ev.before, ev.name) = {})
          => \A k \in 1..(Len(ev.before) - 1) : scopes[k] = ev.before[k]
    /\ ev.kind = "callret" =>
          \A name \in ev.fresh :
              /\ Binders(scopes, name) = {}
              /\ GetVariable(scopes, globalVars, name) = Nil

\* a call whose body assigned a name no frame bound returned
C6_Witness ==
    /\ ev.kind = "callret"
    /\ ev.fresh # {}

\* C7: on entry to a body every parameter without an argument reads as
\* Nil, and the new frame binds nothing but parameters
C7_MissingParameterIsNil ==
    ev.kind = "callenter" =>
        /\ \A p \in ev.missing : GetVariable(scopes, globalVars, p) = Nil
        /\ DOMAIN TopFrame(scopes)
             \subseteq {functions[ev.name].params[i] :
                          i \in 1..Len(functions[ev.name].params)}

\* C8: the cursor is an index of the token vector, at most that of its
\* end-of-input token
C8_CursorInBounds ==
    current >= 0 /\ current <= NTok - 1

\* the closing parenthesis matching an opening one, scanning from i at
\* nesting depth
RECURSIVE ParenEnd(_, _)
ParenEnd(i, depth) ==
    IF i >= NTok THEN i
    ELSE LET d == IF Is(i, "LPAREN") THEN depth + 1
                  ELSE IF Is(i, "RPAREN") THEN depth - 1
                  ELSE depth
         IN  IF d > 0 THEN ParenEnd(i + 1, d) ELSE i

\* C9: call syntax applied to a value that is not callable yields the
\* value and leaves the cursor just after the matching closing parenthesis
C9_NotCallableConsumesParens ==
    (ev.kind = "callexpr" /\ ev.pos >= 0) =>
        /\ ev.result = ev.val
        /\ current = ParenEnd(ev.pos + 1, 1) + 1

\* the value v is the Bool true
IsBoolTrue(v) == v.type = "BOOL" /\ v.boolean

\* C10: a while body runs only under a condition that just evaluated to
\* the Bool true; a while whose condition first evaluates to anything else
\* never enters its body and leaves scopes, output and functions as the
\* evaluation of the condition left them
C10_WhileNeedsBoolTrue ==
    /\ \A k \in 1..Len(ctl) :
          (ctl[k].fn = "whileStatement" /\ ctl[k].pc = "body")
              => IsBoolTrue(ctl[k].left)
    /\ (ev.kind = "whileexit" /\ ~IsBoolTrue(ev.first)) =>
          /\ ~ev.entered
          /\ scopes = ev.scopes0
          /\ out = ev.out0
          /\ functions = ev.functions0
          /\ current = ev.bodyEnd + 1

\* a while whose condition is a nonzero Number or a non-empty String ended
C10_Witness ==
    /\ ev.kind = "whileexit"
    /\ \/ ev.first.type = "NUMBER" /\ ~IsZero(ev.first.num)
       \/ ev.first.type = "STRING" /\ Len(ev.first.str) > 0
    /\ ev.bodyEnd > ev.bodyStart

\* C11: a for statement over Number bounds whose body executes no return
\* runs its body once for each integer from the truncated start up to, not
\* including, the truncated end, each iteration beginning with the name
\* bound to that integer whatever the body assigned to it; with a bound
\* that is not a Number it runs the body zero times
C11_ForRunsTruncatedRange ==
    /\ (ev.kind = "forexit" /\ ~ev.returned) =>
          IF ev.from.type = "NUMBER" /\ ev.to.type = "NUMBER"
          THEN IF ~IsBig(ev.from.num) /\ ~IsBig(ev.to.num)
               THEN LET s == Trunc(ev.from.num)
                        e == Trunc(ev.to.num)
                    IN  /\ Len(ev.iters) = (IF e > s THEN e - s ELSE 0)
                        /\ \A k \in 1..Len(ev.iters) : ev.iters[k] = s + k - 1
               ELSE \* the end is above the largest int: the range holds
                    \* more than IntMax - s integers
                    (~IsBig(ev.from.num) /\ IsBig(ev.to.num)) =>
                        Len(ev.iters) - 1 >= IntMax - Trunc(ev.from.num)
          ELSE ev.iters = <<>>
    /\ (/\ Len(ctl) > 0
        /\ TopFrame(ctl).fn = "forStatement"
        /\ TopFrame(ctl).pc = "body"
        /\ current = TopFrame(ctl).start
        /\ ev.kind = "write") =>
          LET f == TopFrame(ctl)
          IN  /\ GetVariable(scopes, globalVars, f.name)
                    = NumV(Whole(f.gIters[Len(f.gIters)]))
              /\ ~IsBig(f.left.num) =>
                    f.gIters[Len(f.gIters)]
                      = Trunc(f.left.num) + Len(f.gIters) - 1

\* the claim's rule: the Bool true, a nonzero Number or a non-empty String
Truthy(v) ==
    \/ v.type = "BOOL" /\ v.boolean
    \/ v.type = "NUMBER" /\ v.num # Whole(0)
    \/ v.type = "STRING" /\ v.str # <<>>

\* the if statements of stack k that run a block in the innermost call
IfsRunning(k) ==
    {i \in (InnerCall(k, Len(k)) + 1)..Len(k) :
        k[i].fn = "ifStatement" /\ k[i].pc \in {"then", "else"}}

\* C12: an if statement runs statements of its then-block only if its
\* condition is truthy, and of its else-block only if it is not; it runs
\* the selected block from its first statement (if it has one before the
\* end of input); with no else and a condition that is not truthy it runs
\* nothing; while a block runs, every statement that starts in the same
\* call lies in that block
C12_IfRunsOneBlock ==
    /\ ev.kind = "ifexit" =>
          LET inThen == {k \in 1..Len(ev.ran) :
                           ev.ran[k] >= ev.thenStart /\ ev.ran[k] < ev.thenEnd}
              inElse == {k \in 1..Len(ev.ran) :
                           /\ ev.hasElse
                           /\ ev.ran[k] >= ev.elseStart
                           /\ ev.ran[k] < ev.elseEnd}
          IN  IF Truthy(ev.condition)
              THEN /\ inThen = 1..Len(ev.ran)
                   /\ (ev.thenStart < ev.thenEnd /\ ~Is(ev.thenStart, "EOF")) =>
                         (ev.ran # <<>> /\ ev.ran[1] = ev.thenStart)
              ELSE /\ inElse = 1..Len(ev.ran)
                   /\ (/\ ev.hasElse
                       /\ ev.elseStart < ev.elseEnd
                       /\ ~Is(ev.elseStart, "EOF")) =>
                         (ev.ran # <<>> /\ ev.ran[1] = ev.elseStart)
    /\ ev.kind = "stmt" =>
          \A i \in IfsRunning(ctl) :
              IF ctl[i].pc = "then"
              THEN /\ Truthy(ctl[i].left)
                   /\ ev.pos >= ctl[i].start /\ ev.pos < ctl[i].end
              ELSE /\ ~Truthy(ctl[i].left)
                   /\ ev.pos >= ctl[i].start2 /\ ev.pos < ctl[i].end2

\* an if with an else whose condition is not truthy ran its else-block, or
\* an if whose condition is a Number or a String ran its then-block
C12_Witness ==
    /\ ev.kind = "ifexit"
    /\ ev.ran # <<>>
    /\ \/ ev.hasElse /\ ev.condition.type \in {"ARRAY", "NUMBER", "STRING"}
                     /\ ev.ran[1] = ev.elseStart
       \/ ~ev.hasElse /\ ev.condition.type \in {"NUMBER", "STRING"}
                      /\ ev.ran[1] = ev.thenStart

\* C14: +, -, *, / and % always yield a value: Number + Number is the sum,
\* String + String the concatenation, a Number divided by zero or taken
\* modulo zero is that Number, and for every pairing of operands other than
\* two Numbers or two Strings the result is the left operand
C14_ArithmeticFallsBackToLeft ==
    (ev.kind = "binary"
        /\ ev.op \in {"PLUS", "MINUS", "STAR", "SLASH", "PERCENT"}) =>
        LET l == ev.left
            r == ev.right
        IN  IF l.type = "NUMBER" /\ r.type = "NUMBER"
            THEN /\ ev.result.type = "NUMBER"
                 /\ ev.op = "PLUS" =>
                       ev.result.num.n * (l.num.d * r.num.d)
                         = (l.num.n * r.num.d + r.num.n * l.num.d)
                             * ev.result.num.d
                 /\ (ev.op \in {"SLASH", "PERCENT"} /\ r.num = Whole(0)) =>
                       ev.result = l
            ELSE IF l.type = "STRING" /\ r.type = "STRING"
            THEN /\ ev.result.type = "STRING"
                 /\ ev.op = "PLUS" => ev.result.str = l.str \o r.str
            ELSE ev.result = l

\* a nonzero Number was divided by zero, or taken modulo zero
C14_Witness ==
    /\ ev.kind = "binary"
    /\ ev.op \in {"SLASH", "PERCENT"}
    /\ ev.left.type = "NUMBER" /\ ev.left.num # Whole(0)
    /\ ev.right = NumV(Whole(0))

\* C15: every ==, !=, <, >, <= and >= yields a Bool, and the Bool false
\* whenever its operands are of different variants
C15_ComparisonAcrossVariantsIsFalse ==
    (ev.kind = "binary"
        /\ ev.op \in {"EQUAL_EQUAL", "BANG_EQUAL", "LESS", "GREATER",
                      "LESS_EQUAL", "GREATER_EQUAL"}) =>
        /\ ev.result.type = "BOOL"
        /\ ev.result \in {BoolV(TRUE), BoolV(FALSE)}
        /\ ev.left.type # ev.right.type => ev.result = BoolV(FALSE)

\* a String was compared with != to a Number
C15_Witness ==
    /\ ev.kind = "binary"
    /\ ev.op = "BANG_EQUAL"
    /\ ev.left.type = "STRING"
    /\ ev.right.type = "NUMBER"

\* C16: once the body of a while statement executed a return, no statement
\* of that body starts again, and when the loop is in a function no later
\* statement of that call starts, whatever the condition evaluates
C16_ReturnStopsTheWhile ==
    ev.kind = "stmt" =>
        LET i == InnerCall(ctl, Len(ctl))
        IN  /\ \A j \in (i + 1)..Len(ctl) :
                  ctl[j].fn = "whileStatement" => ~ctl[j].gReturned
            /\ i # 0 => ~ctl[i].gLoop

\* the opening braces less the closing braces among tokens a..b
BraceDepth(a, b) ==
    Cardinality({k \in a..b : Is(k, "LBRACE")})
        - Cardinality({k \in a..b : Is(k, "RBRACE")})

\* the closing brace that matches the opening brace at open, if there is one
Closers(open) ==
    {j \in (open + 1)..(NTok - 1) :
        /\ Is(j, "RBRACE")
        /\ BraceDepth(open + 1, j - 1) = 0
        /\ \A k \in (open + 1)..(j - 1) : BraceDepth(open + 1, k) >= 0}

Closer(open) == CHOOSE j \in Closers(open) : TRUE

\* a block opens at open and is closed
BlockAt(open) ==
    open >= 0 /\ open < NTok /\ Is(open, "LBRACE") /\ Closers(open) # {}

\* the block the statement that just ended opens with
FirstBlock ==
    IF ev.kind = "ifexit" THEN ev.thenStart - 1 ELSE ev.bodyStart - 1

\* the statement that just ended is well-formed: its block is closed, and
\* so is the block of an else that follows it
WellFormedBlocks ==
    /\ BlockAt(FirstBlock)
    /\ (ev.kind = "ifexit" /\ Is(Closer(FirstBlock) + 1, "ELSE")) =>
          BlockAt(Closer(FirstBlock) + 2)

\* the last closing brace of the statement that just ended
LastBrace ==
    IF ev.kind = "ifexit" /\ Is(Closer(FirstBlock) + 1, "ELSE")
    THEN Closer(Closer(FirstBlock) + 2)
    ELSE Closer(FirstBlock)

\* an if, while or for statement of the top level just ended
EndedAtTopLevel ==
    /\ ev.kind \in {"ifexit", "whileexit", "forexit"}
    /\ Len(ctl) = 2
    /\ ctl[1].fn = "execute"

\* between two statements of the top level the cursor stays where it is,
\* and the next statement starts there
ResumesAtCursor ==
    LET top == /\ status = "running" /\ status' = "running"
               /\ ctl # <<>> /\ ctl[1].fn = "execute"
        between(pc) == /\ top /\ Len(ctl) = 2
                       /\ ctl[2].fn = "statement" /\ ctl[2].pc = pc
    IN  /\ between("done") => (current' = current /\ Len(ctl') = 1)
        /\ (top /\ Len(ctl) = 1) =>
              /\ current' = current
              /\ Len(ctl') = 2
              /\ ctl'[2].fn = "statement" /\ ctl'[2].pc = "start"
        /\ (between("start") /\ ev'.kind = "stmt") => ev'.pos = current

\* C17: when a well-formed if, while or for statement of the top level
\* ends, the cursor is one past its last closing brace (of the else-block
\* if there is one), whatever ran; and the statement that starts next at
\* the top level starts at the cursor
C17_CursorPastTheBlock ==
    /\ [](EndedAtTopLevel /\ WellFormedBlocks => current = LastBrace + 1)
    /\ [][ResumesAtCursor]_vars

\* an if statement of the top level ended after its else-block, which holds
\* a block, ran
C17_Witness ==
    /\ EndedAtTopLevel
    /\ WellFormedBlocks
    /\ ev.kind = "ifexit"
    /\ ev.hasElse
    /\ ev.ran # <<>>
    /\ \E k \in ev.elseStart..(LastBrace - 1) : Is(k, "LBRACE")

\* a step that ends a function declaration: it is the step after the
\* declaration was dispatched, and it changes the function table at the
\* declared name only, no scope frame, no output and no pending return
DeclarationStep ==
    ev'.kind = "fndecl" =>
        /\ ev.kind = "stmt" /\ Is(ev.pos, "FN")
        /\ ev'.name = Tok(ev.pos + 1).value
        /\ scopes' = scopes /\ globalVars' = globalVars /\ out' = out
        /\ hasReturned' = hasReturned /\ returnValue' = returnValue
        /\ DOMAIN functions' = DOMAIN functions \cup {ev'.name}
        /\ \A n \in DOMAIN functions : n # ev'.name => functions'[n] = functions[n]

\* C18: a function declaration ends in one step that runs no statement and
\* changes no scope frame; when its body is a closed block, the range it
\* registers under its name, in place of any earlier one, starts after the
\* opening brace and ends at the matching closing brace, and the cursor is
\* one past that brace.  Only a declaration changes the function table, and
\* a call starts at the body start registered under the name it calls
C18_DeclarationRegistersTheBody ==
    /\ [][DeclarationStep]_vars
    /\ [][functions' # functions => ev'.kind = "fndecl"]_vars
    /\ []((ev.kind = "fndecl" /\ BlockAt(ev.bodyStart - 1)) =>
            /\ Has(functions, ev.name)
            /\ functions[ev.name].bodyStart = ev.bodyStart
            /\ functions[ev.name].bodyEnd = Closer(ev.bodyStart - 1)
            /\ current = Closer(ev.bodyStart - 1) + 1)
    /\ [](ev.kind = "callenter" => current = functions[ev.name].bodyStart)

\* a declaration whose body holds a block replaced an earlier definition
C18_Witness ==
    /\ ev.kind = "fndecl"
    /\ BlockAt(ev.bodyStart - 1)
    /\ Has(ev.functions0, ev.name)
    /\ ev.functions0[ev.name] # functions[ev.name]
    /\ \E k \in ev.bodyStart..(current - 2) : Is(k, "LBRACE")

\* the if, while or for statement or the function declaration that just
\* ended has a block that opens and is not closed before the end of input
Unterminated ==
    /\ ev.kind \in {"ifexit", "whileexit", "forexit", "fndecl"}
    /\ FirstBlock >= 0 /\ FirstBlock < NTok /\ Is(FirstBlock, "LBRACE")
    /\ \/ Closers(FirstBlock) = {}
       \/ /\ ev.kind = "ifexit"
          /\ Is(Closer(FirstBlock) + 1, "ELSE")
          /\ Is(Closer(FirstBlock) + 2, "LBRACE")
          /\ Closers(Closer(FirstBlock) + 2) = {}

\* C19: when an if, while or for statement or a function declaration whose
\* block is not closed before the end of input ends, the cursor is on the
\* end-of-input token
C19_OpenBlockEndsOnEof ==
    Unterminated => (current = NTok - 1 /\ Is(current, "EOF"))

\* C21: the pending-return flag is set only while a call is active: when it
\* is set the scope stack is deeper than the global frame
C21_FlagOnlyInsideCalls ==
    hasReturned => Len(scopes) > 1

\* the program has no while statement and declares no function, so that no
\* call runs
NoLoopNoCall ==
    \A i \in 1..Len(tokens) : tokens[i].type \notin {"WHILE", "FN"}

\* a step in which statement() returns leaves the cursor after the place the
\* statement was invoked at
StatementAdvances ==
    (/\ status = "running" /\ status' = "running"
     /\ ctl # <<>> /\ Top.fn = "statement"
     /\ Len(ctl') = Len(ctl) - 1) =>
        current' > (IF Top.pc = "start" THEN current ELSE Top.gPos)

\* C22: in a program with no while statement and no function call every
\* invocation of statement() moves the cursor forward, whatever token it
\* finds, so that execute() terminates
C22_StatementsAdvance ==
    [][NoLoopNoCall => StatementAdvances]_vars

\* the coercion of a logical operand: a Bool is itself, a Number is true
\* unless zero, every other value is false
Coerced(v) ==
    \/ v = BoolV(TRUE)
    \/ v.type = "NUMBER" /\ v.num # Whole(0)

\* a step of logicalOr or logicalAnd that finds its operator at the cursor
\* consumes it and starts the evaluation of the right operand
RightOperandStarts ==
    (/\ status = "running" /\ status' = "running"
     /\ ctl # <<>> /\ Top.pc \in {"left", "right"}
     /\ \/ Top.fn = "logicalOr" /\ Is(current, "OR")
        \/ Top.fn = "logicalAnd" /\ Is(current, "AND")) =>
        /\ current' = current + 1
        /\ Len(ctl') = Len(ctl) + 1
        /\ ctl'[Len(ctl')].fn =
              (IF Top.fn = "logicalOr" THEN "logicalAnd" ELSE "comparison")
        /\ ctl'[Len(ctl')].pc = "start"

\* C23: && and || yield the Bool that combines their coerced operands, and
\* the right operand is evaluated whatever the left operand is
C23_LogicalNeverShortCircuits ==
    /\ [](ev.kind = "binary" /\ ev.op = "AND" =>
            ev.result = BoolV(Coerced(ev.left) /\ Coerced(ev.right)))
    /\ [](ev.kind = "binary" /\ ev.op = "OR" =>
            ev.result = BoolV(Coerced(ev.left) \/ Coerced(ev.right)))
    /\ [][RightOperandStarts]_vars

\* the right operand of an || whose left operand is true, or of an && whose
\* left operand is false, made a call that printed
C23_Witness ==
    /\ ev.kind = "binary"
    /\ \/ ev.op = "OR" /\ ev.left = BoolV(TRUE)
       \/ ev.op = "AND" /\ ev.left = BoolV(FALSE)
    /\ Len(out) > Len(ev.out0)

\* the text str from pos on with each closed #{name} span replaced by the
\* rendering of read(name), in one pass over str: what a span is replaced
\* by is not looked at again
RECURSIVE SinglePass(_, _, _, _)
SinglePass(str, pos, sc, gv) ==
    LET p == FindMarker(str, pos)
        end == IF p = 0 THEN 0 ELSE FindClose(str, p)
    IN  IF end = 0 THEN SubSeq(str, pos, Len(str))
        ELSE SubSeq(str, pos, p - 1)
               \o ToString(GetVariable(sc, gv, SubSeq(str, p + 2, end - 1)))
               \o SinglePass(str, end + 1, sc, gv)

\* C24: a string literal evaluates to its text with each #{name} span
\* replaced by the rendering of read(name), the text around the spans and
\* an unclosed #{ kept as they are, and the replacements not interpolated
\* again
C24_InterpolationIsOnePass ==
    ev.kind = "strlit" =>
        rv = StrV(SinglePass(ev.text, 1, scopes, globalVars))

\* the first place from i on in text s that holds no digit (places count
\* from 1)
RECURSIVE DigitRun(_, _)
DigitRun(s, i) ==
    IF i <= Len(s) /\ s[i] \in Digits THEN DigitRun(s, i + 1) ELSE i

\* the place after the numeric literal text s begins with: its digits, and
\* a dot with the digits after it when a digit follows the dot
LiteralEnd(s) ==
    LET a == DigitRun(s, 1)
    IN  IF a + 1 <= Len(s) /\ s[a] = "." /\ s[a + 1] \in Digits
        THEN DigitRun(s, a + 1)
        ELSE a

\* C25: a text that begins with a digit lexes to a NUMBER token of its
\* digits, with one dot and the digits after it only when a digit follows
\* the dot; the rest is lexed from where the literal ends, so that digits
\* followed by two dots give NUMBER then DOTDOT
C25_NumberStopsBeforeRange ==
    (ev.kind = "lexed" /\ ev.source # <<>> /\ ev.source[1] \in Digits) =>
        LET s == ev.source
            e == LiteralEnd(s)
        IN  /\ e > 1
            /\ tokens[1] = Num(SubSeq(s, 1, e - 1))
            /\ Cardinality({i \in 1..(e - 1) : s[i] = "."}) <= 1
            /\ tokens = <<tokens[1]>> \o tokenize(s, e - 1, <<>>)
            /\ (e + 1 <= Len(s) /\ s[e] = "." /\ s[e + 1] = ".") =>
                  tokens[2] = T("DOTDOT")
            /\ s = TextRange =>
                  tokens = <<Num(<<"1">>), T("DOTDOT"), Num(<<"5">>), T("EOF")>>
            /\ s = TextFloat => tokens = <<Num(s), T("EOF")>>

\* digits followed by two dots and a digit were lexed
C25_Witness ==
    /\ ev.kind = "lexed"
    /\ ev.source # <<>> /\ ev.source[1] \in Digits
    /\ Len(tokens) = 4
    /\ tokens[2] = T("DOTDOT")
    /\ tokens[3].type = "NUMBER"

\* text src, lexed from pos on, holds a string literal whose opening quote
\* has no closing quote
RECURSIVE OpenString(_, _)
OpenString(src, pos) ==
    LET p == skipWhitespace(src, pos)
    IN  IF p >= Len(src) THEN FALSE
        ELSE IF Ch(src, p) = "/" /\ p + 1 < Len(src) /\ Ch(src, p + 1) = "/"
        THEN OpenString(src, skipComment(src, p))
        ELSE LET t == nextToken(src, p)
             IN  \/ t.tok.type = "STRING" /\ t.pos > Len(src)
                 \/ OpenString(src, t.pos)

\* C13: lexing a text with a string literal that is not closed fails: no
\* token vector is produced and the interpreter does not run
C13_OpenStringFailsLexing ==
    (ev.kind = "lexed" /\ OpenString(ev.source, 0)) =>
        (status = "failed" /\ tokens = <<>> /\ ctl = <<>>)

\* C20: the token vector of every text holds one end-of-input token, its
\* last element, and execute() returns only with the cursor on it
C20_OneEofAtTheEnd ==
    /\ status # "lexing" =>
          /\ tokens # <<>>
          /\ tokens[Len(tokens)].type = "EOF"
          /\ \A i \in 1..(Len(tokens) - 1) : tokens[i].type # "EOF"
    /\ status = "done" => current = NTok - 1

====
